---- MODULE Spec2Model ----
(***************************************************************************)
(* Model of the OpenClaw bootstrapping benchmark.                          *)
(*                                                                         *)
(*   Spec      : the orchestrator run_benchmark (runner.py): start-up,     *)
(*               skip-completed, the run / retry loops, aggregation and    *)
(*               the JSON report.  One call of run_single_model is one     *)
(*               step whose result is drawn from TrialOutcomes.            *)
(*   SpecTrial : one call of run_single_model, with the conversation       *)
(*               driver run_bootstrap_conversation (bootstrap.py) unrolled *)
(*               turn by turn against a clock.                             *)
(*                                                                         *)
(* Time is counted in ticks, Res ticks to the second.  A Python float that *)
(* is a quotient of integers is kept as a fraction in lowest terms.        *)
(***************************************************************************)
EXTENDS Integers, Sequences, FiniteSets, TLC

VARIABLES
    \* ---- run_benchmark (Spec) ----
    pc,                 \* position in run_benchmark
    cfg,                \* BenchmarkConfig after the CLI overrides and the model filter
    skip_completed,     \* the --skip-completed flag
    latest,             \* content of results/benchmark_latest.json (None: no file)
    openclaw_version,   \* the module global _openclaw_version
    prev_lookup,        \* _prev_lookup: (model id, variant name) -> prior entry
    prev_version,       \* _prev_version
    mi, vi,             \* indices of the model loop and of the variant loop
    run_idx, attempt,   \* loop variables of the run loop and of the retry loop
    result,             \* the candidate (br, vr) of the current trial
    model_runs,         \* the runs collected for the current (model, variant)
    aggregated,         \* the list returned by run_benchmark
    attempt_log,        \* history: what the run_single_model calls of the last trial returned
    calls,              \* history: run_single_model calls made for the current pair
    pair_log,           \* history: one entry per finished (model, variant) pair
    \* ---- run_single_model / run_bootstrap_conversation (SpecTrial) ----
    tpc,                \* position in run_single_model
    tcfg,               \* the timeouts and the prompts of the trial
    elapsed,            \* time.time() - t0, in ticks
    conv,               \* the BootstrapResult being built by the driver
    ws,                 \* workspace: does BOOTSTRAP.md exist
    ws_seen,            \* history: what the driver's one look at BOOTSTRAP.md saw
    turn_log,           \* history: one entry per iteration of the prompt loop
    cause,              \* history: the events that happened in this trial
    ret,                \* the pair returned by run_single_model (None before)
    \* ---- verify_bootstrap (SpecVerify), aggregate_runs (SpecAggregate) ----
    files,              \* the content of the workspace directory
    verified,           \* what the successive calls of verify_bootstrap produced
    agg_runs,           \* the runs handed to aggregate_runs
    agg_out,            \* what aggregate_runs returned (None before)
    \* ---- environments and gateway processes of the invocation (Spec) ----
    keep_env,           \* the --keep-env flag
    env_dirs,           \* environment home directories on disk
    active_envs,        \* environments constructed and not yet torn down
    gateways,           \* gateway processes alive
    \* ---- the cleanup registry and the signal handler (SpecSignal) ----
    mpos,               \* position of the main program
    pending,            \* the exception the main program is unwinding with
    hstack,             \* the running _emergency_cleanup frames, innermost last
    active_env,         \* _active_env is set
    active_gateway,     \* _active_gateway is set
    gateway_proc,       \* the local gateway_proc of run_single_model is set
    stops,              \* history: calls of stop_gateway
    events,             \* history: signals sent to the gateway, rmtree calls
    hit_at,             \* history: where each interrupt arrived
    exit_path           \* history: how run_single_model left its try

orchVars == <<pc, cfg, skip_completed, latest, openclaw_version, prev_lookup,
              prev_version, mi, vi, run_idx, attempt, result, model_runs,
              aggregated, attempt_log, calls, pair_log>>
trialVars == <<tpc, tcfg, elapsed, conv, ws, ws_seen, turn_log, cause, ret>>
pureVars == <<files, verified, agg_runs, agg_out>>
resVars == <<keep_env, env_dirs, active_envs, gateways>>
sigVars == <<mpos, pending, hstack, active_env, active_gateway, gateway_proc,
             stops, events, hit_at, exit_path>>
vars == <<orchVars, trialVars, pureVars, sigVars, resVars>>

----------------------------------------------------------------------------
\* Bounds of the model.

\* cfg.runs_per_model is drawn from 0..MaxRuns
MaxRuns == 2
\* cfg.retries is drawn from 0..MaxRetries
MaxRetries == 1
\* a batch holds at most MaxTrials trials (models * variants * runs)
MaxTrials == 2
\* ticks per second
Res == 2
\* verify_bootstrap is called at most MaxCalls times on one workspace
MaxCalls == 2
\* a variant of a trial holds at most MaxPrompts prompts
MaxPrompts == 3
\* cfg.bootstrap_timeout is drawn from 0..MaxTimeout seconds and one long value,
\* cfg.agent_turn_timeout from 1..MaxTimeout seconds
MaxTimeout == 2

----------------------------------------------------------------------------
\* Python values.

\* Python's None, where the other values are records
None == [none |-> TRUE]

Unknown == "unknown"

\* what detect_openclaw_version can return
Versions == {Unknown, "2026.1"}

RECURSIVE GCD(_, _)
GCD(a, b) == IF b = 0 THEN a ELSE GCD(b, a % b)

\* the float n / d, for n >= 0 and d > 0
Rat(n, d) == LET g == GCD(n, d) IN [n |-> n \div g, d |-> d \div g]

RatAdd(a, b) == Rat(a.n * b.d + b.n * a.d, a.d * b.d)

RatDivByOne(a, k) == a

RatDiv(a, k) == Rat(a.n, a.d * k)

RatLess(a, b) == a.n * b.d < b.n * a.d

RECURSIVE SumRat(_)
SumRat(s) == IF s = <<>> THEN Rat(0, 1) ELSE RatAdd(Head(s), SumRat(Tail(s)))

RECURSIVE SumInt(_)
SumInt(s) == IF s = <<>> THEN 0 ELSE Head(s) + SumInt(Tail(s))

RECURSIVE Pow10(_)
Pow10(k) == IF k = 0 THEN 1 ELSE 10 * Pow10(k - 1)

\* Python's round(x, digits): to the nearest multiple of 10^-digits, ties to even
Round(x, digits) ==
    LET s   == Pow10(digits)
        fl  == (x.n * s) \div x.d
        rem == (x.n * s) % x.d
        k   == IF 2 * rem > x.d THEN fl + 1
               ELSE IF 2 * rem < x.d THEN fl
               ELSE IF fl % 2 = 0 THEN fl ELSE fl + 1
    IN  Rat(k, s)

Min(a, b) == IF a <= b THEN a ELSE b

Max(a, b) == IF a >= b THEN a ELSE b

----------------------------------------------------------------------------
\* config.py: the models and the prompt variants of config.yaml.

ModelAlpha == [name |-> "alpha", model_id |-> "vendor/alpha"]

ModelBeta == [name |-> "beta", model_id |-> "vendor/beta"]

ConfigModels == <<ModelAlpha, ModelBeta>>

VariantGuided == [name |-> "guided", prompts |-> <<"p1", "p2">>]

VariantUnguided == [name |-> "unguided", prompts |-> <<"q1">>]

\* cfg.prompt_variants: none, one or two named variants
ConfigVariants == {<<>>, <<VariantGuided>>, <<VariantGuided, VariantUnguided>>}

\* BenchmarkConfig.bootstrap_prompts: the first variant's prompts, or []
BootstrapPrompts(c) ==
    IF c.prompt_variants # <<>> THEN c.prompt_variants[1].prompts ELSE <<>>

\* the variants the variant loop iterates over (runner.py:299)
LoopVariants(c) ==
    IF c.prompt_variants # <<>> THEN c.prompt_variants
    ELSE <<[name |-> "default", prompts |-> BootstrapPrompts(c)]>>

\* n_runs = max(1, cfg.runs_per_model)
NRuns(c) == Max(1, c.runs_per_model)

----------------------------------------------------------------------------
\* bootstrap.py, verify.py: the records of one trial.

CheckFiles == <<"BOOTSTRAP.md", "IDENTITY.md", "USER.md", "SOUL.md">>

BootstrapTurn(prompt) ==
    [prompt |-> prompt, response |-> "", duration_s |-> Rat(0, 1),
     success |-> FALSE, error |-> ""]

BootstrapResult(model_name) ==
    [model_name |-> model_name, turns |-> <<>>, total_duration_s |-> Rat(0, 1),
     bootstrap_completed |-> FALSE, error |-> ""]

VerificationResult(model_name) ==
    [model_name |-> model_name, checks |-> <<>>, all_passed |-> FALSE,
     score |-> Rat(0, 1)]

NumPassedCountsAll(checks) == Len(checks)

\* passed = sum(1 for c in checks if c.passed)
NumPassed(checks) == Cardinality({i \in DOMAIN checks : checks[i].passed})

VerifyBootstrapTriggerMustExist(model_name, flags) ==
    LET checks == [i \in 1..4 |->
                     [filename |-> CheckFiles[i],
                      exists   |-> IF i = 1 THEN ~flags[i] ELSE TRUE,
                      passed   |-> IF i = 1 THEN ~flags[i] ELSE flags[i]]]
        passed == NumPassed(checks)
        total  == Len(checks)
    IN  [model_name |-> model_name, checks |-> checks,
         all_passed |-> (passed = total),
         score |-> IF total > 0 THEN Rat(passed, total) ELSE Rat(0, 1)]

\* verify_bootstrap, given the pass flags of its four checks in order
VerifyBootstrap(model_name, flags) ==
    LET checks == [i \in 1..4 |->
                     [filename |-> CheckFiles[i],
                      exists   |-> IF i = 1 THEN ~flags[i] ELSE TRUE,
                      passed   |-> flags[i]]]
        passed == NumPassed(checks)
        total  == Len(checks)
    IN  [model_name |-> model_name, checks |-> checks,
         all_passed |-> (passed = total),
         score |-> IF total > 0 THEN Rat(passed, total) ELSE Rat(0, 1)]

----------------------------------------------------------------------------
\* runner.py: failure classification.

AnyTurnFailed(br) == \E i \in DOMAIN br.turns : ~br.turns[i].success

InfraFailureScoreToo(br, vr) ==
    br.error # "" \/ AnyTurnFailed(br) \/ RatLess(vr.score, Rat(1, 1))

\* infra_failure = bool(br.error) or any(not t.success for t in br.turns)
InfraFailure(br, vr) == br.error # "" \/ AnyTurnFailed(br)

KeepFirstResult(prev, new) == IF prev = None THEN new ELSE prev

\* result = (br, vr): the candidate is replaced by every attempt
KeptResult(prev, new) == new

----------------------------------------------------------------------------
\* report.py: aggregation and the JSON report.

AggregatedResult(model_name) ==
    [model_name |-> model_name, runs |-> <<>>, prompt_variant |-> "default",
     prompt_variant_prompts |-> <<>>, raw_runs_json |-> <<>>, num_runs |-> 0,
     avg_score |-> Rat(0, 1), avg_duration_s |-> Rat(0, 1),
     bootstrap_rate |-> Rat(0, 1), perfect_rate |-> Rat(0, 1),
     bootstrap_md_rate |-> Rat(0, 1), identity_rate |-> Rat(0, 1),
     user_rate |-> Rat(0, 1), soul_rate |-> Rat(0, 1)]

CheckRateAnyFile(runs, filename) ==
    Rat(SumInt([i \in DOMAIN runs |-> NumPassed(runs[i].vr.checks)]), Len(runs))

\* _check_rate: the passed checks called filename, over all runs, divided by n
CheckRate(runs, filename) ==
    LET hits(vr) == Cardinality({j \in DOMAIN vr.checks :
                        vr.checks[j].filename = filename /\ vr.checks[j].passed})
    IN  Rat(SumInt([i \in DOMAIN runs |-> hits(runs[i].vr)]), Len(runs))

AggregateRuns(model_name, runs, prompt_variant, prompt_variant_prompts) ==
    LET n == Len(runs)
        completed(r) == r.br.bootstrap_completed
        perfect(r)   == r.vr.all_passed
    IN  IF n = 0
        THEN [AggregatedResult(model_name) EXCEPT
                 !.prompt_variant = prompt_variant,
                 !.prompt_variant_prompts = prompt_variant_prompts]
        ELSE [AggregatedResult(model_name) EXCEPT
                 !.runs = runs,
                 !.prompt_variant = prompt_variant,
                 !.prompt_variant_prompts = prompt_variant_prompts,
                 !.num_runs = n,
                 !.avg_score = RatDiv(SumRat([i \in DOMAIN runs |-> runs[i].vr.score]), n),
                 !.avg_duration_s =
                     RatDiv(SumRat([i \in DOMAIN runs |-> runs[i].br.total_duration_s]), n),
                 !.bootstrap_rate = Rat(Cardinality({i \in DOMAIN runs : completed(runs[i])}), n),
                 !.perfect_rate = Rat(Cardinality({i \in DOMAIN runs : perfect(runs[i])}), n),
                 !.bootstrap_md_rate = CheckRate(runs, "BOOTSTRAP.md"),
                 !.identity_rate = CheckRate(runs, "IDENTITY.md"),
                 !.user_rate = CheckRate(runs, "USER.md"),
                 !.soul_rate = CheckRate(runs, "SOUL.md")]

\* the error text of a failed agent call; it quotes a credential
AgentError == "[ERROR] api_key=sk-123 rejected"

\* _scrub: what follows api_key= is replaced by ***
Scrub(text) ==
    IF text = AgentError THEN "[ERROR] api_key=*** rejected" ELSE text

\* one element of a model entry's "runs", built from a live (br, vr)
RunEntry(r) ==
    [bootstrap_completed |-> r.br.bootstrap_completed,
     score |-> r.vr.score,
     total_duration_s |-> r.br.total_duration_s,
     turns |-> [i \in DOMAIN r.br.turns |->
                  LET t == r.br.turns[i]
                  IN  [prompt |-> t.prompt, response |-> Scrub(t.response),
                       duration_s |-> t.duration_s, success |-> t.success,
                       error |-> Scrub(t.error)]],
     checks |-> r.vr.checks]

\* "runs" of a model entry: the live runs, else the raw runs carried over
EntryRuns(ag) ==
    IF ag.runs # <<>> THEN [i \in DOMAIN ag.runs |-> RunEntry(ag.runs[i])]
    ELSE IF ag.raw_runs_json # <<>> THEN ag.raw_runs_json
    ELSE <<>>

\* one element of the report's "models"
ModelEntry(ag) ==
    [model |-> ag.model_name,
     prompt_variant |-> ag.prompt_variant,
     prompt_variant_prompts |-> ag.prompt_variant_prompts,
     num_runs |-> ag.num_runs,
     avg_score |-> Round(ag.avg_score, 4),
     avg_duration_s |-> Round(ag.avg_duration_s, 2),
     bootstrap_rate |-> Round(ag.bootstrap_rate, 4),
     perfect_rate |-> Round(ag.perfect_rate, 4),
     per_check_rates |->
         [f \in {CheckFiles[i] : i \in 1..4} |->
             CASE f = "BOOTSTRAP.md" -> Round(ag.bootstrap_md_rate, 4)
               [] f = "IDENTITY.md"  -> Round(ag.identity_rate, 4)
               [] f = "USER.md"      -> Round(ag.user_rate, 4)
               [] f = "SOUL.md"      -> Round(ag.soul_rate, 4)],
     runs |-> EntryRuns(ag)]

\* save_json_report: the report written to benchmark_<ts>.json and to
\* benchmark_latest.json (the timestamp is left out)
SaveJsonReport(results, version) ==
    [openclaw_version |-> version,
     models |-> [i \in DOMAIN results |-> ModelEntry(results[i])]]

CarryOverNoRawRuns(prev_entry) ==
    [AggregatedResult(prev_entry.model) EXCEPT
        !.prompt_variant = prev_entry.prompt_variant,
        !.prompt_variant_prompts = prev_entry.prompt_variant_prompts,
        !.num_runs = prev_entry.num_runs,
        !.avg_score = prev_entry.avg_score,
        !.avg_duration_s = prev_entry.avg_duration_s,
        !.bootstrap_rate = prev_entry.bootstrap_rate,
        !.perfect_rate = prev_entry.perfect_rate,
        !.bootstrap_md_rate = prev_entry.per_check_rates["BOOTSTRAP.md"],
        !.identity_rate = prev_entry.per_check_rates["IDENTITY.md"],
        !.user_rate = prev_entry.per_check_rates["USER.md"],
        !.soul_rate = prev_entry.per_check_rates["SOUL.md"]]

\* the AggregatedResult rebuilt from a prior entry (runner.py:315-330)
CarryOver(prev_entry) ==
    [AggregatedResult(prev_entry.model) EXCEPT
        !.prompt_variant = prev_entry.prompt_variant,
        !.prompt_variant_prompts = prev_entry.prompt_variant_prompts,
        !.raw_runs_json = prev_entry.runs,
        !.num_runs = prev_entry.num_runs,
        !.avg_score = prev_entry.avg_score,
        !.avg_duration_s = prev_entry.avg_duration_s,
        !.bootstrap_rate = prev_entry.bootstrap_rate,
        !.perfect_rate = prev_entry.perfect_rate,
        !.bootstrap_md_rate = prev_entry.per_check_rates["BOOTSTRAP.md"],
        !.identity_rate = prev_entry.per_check_rates["IDENTITY.md"],
        !.user_rate = prev_entry.per_check_rates["USER.md"],
        !.soul_rate = prev_entry.per_check_rates["SOUL.md"]]

----------------------------------------------------------------------------
\* What one call of run_single_model can return, as run_benchmark sees it.

TurnRecord(prompt, ok) ==
    [prompt |-> prompt,
     response |-> IF ok THEN "done" ELSE AgentError,
     duration_s |-> IF ok THEN Rat(1, Res) ELSE Rat(2, Res),
     success |-> ok,
     error |-> IF ok THEN "" ELSE AgentError]

\* a conversation that ran all its prompts; failed: the turns that failed
Conversation(model, prompts, failed, completed) ==
    [BootstrapResult(model.model_id) EXCEPT
        !.turns = [i \in DOMAIN prompts |-> TurnRecord(prompts[i], i \notin failed)],
        !.total_duration_s =
            Rat(Len(prompts) + Cardinality(failed \cap DOMAIN prompts), Res),
        !.bootstrap_completed = completed]

\* every turn succeeded, nothing was done: a behavioural outcome, score 0
OutcomeIdle(model, prompts) ==
    [br |-> Conversation(model, prompts, {}, FALSE),
     vr |-> VerifyBootstrap(model.model_id, <<FALSE, FALSE, FALSE, FALSE>>)]

\* every turn succeeded and every check passed
OutcomePerfect(model, prompts) ==
    [br |-> Conversation(model, prompts, {}, TRUE),
     vr |-> VerifyBootstrap(model.model_id, <<TRUE, TRUE, TRUE, TRUE>>)]

\* the first turn failed, three checks passed: score 3/4
OutcomeTurnFailed(model, prompts) ==
    [br |-> Conversation(model, prompts, {1}, TRUE),
     vr |-> VerifyBootstrap(model.model_id, <<TRUE, TRUE, TRUE, FALSE>>)]

\* onboarding failed (runner.py:138-141)
OutcomeOnboardFailed(model) ==
    [br |-> [BootstrapResult(model.model_id) EXCEPT !.error = "Onboarding failed"],
     vr |-> VerificationResult(model.model_id)]

TrialOutcomes(model, prompts) ==
    {OutcomeIdle(model, prompts), OutcomePerfect(model, prompts),
     OutcomeOnboardFailed(model)}
    \cup (IF prompts # <<>> THEN {OutcomeTurnFailed(model, prompts)} ELSE {})

\* the results of an earlier invocation, in whose configuration the guided prompts
\* differed by one character for model alpha
PriorResults ==
    <<AggregateRuns("vendor/alpha",
          <<OutcomePerfect(ModelAlpha, <<"p1", "pX">>)>>,
          "guided", <<"p1", "pX">>),
      AggregateRuns("vendor/beta",
          <<OutcomePerfect(ModelBeta, <<"p1", "p2">>),
            OutcomeIdle(ModelBeta, <<"p1", "p2">>),
            OutcomeTurnFailed(ModelBeta, <<"p1", "p2">>)>>,
          "guided", <<"p1", "p2">>)>>

\* benchmark_latest.json just after open(latest_path, "w"), and after a part of
\* the JSON text was written (report.py:265-266)
TruncatedFile == [written |-> "nothing"]

PartialFile == [written |-> "part"]

\* what load_latest_report returns for the content of the file: a file that does
\* not parse as JSON is no report (report.py:273-283)
LoadLatestReport(file) ==
    IF file \in {TruncatedFile, PartialFile} THEN None ELSE file

\* benchmark_latest.json as save_json_report left it, or no file

PriorReports == {None} \cup {SaveJsonReport(PriorResults, v) : v \in Versions}

----------------------------------------------------------------------------
\* runner.py: run_benchmark.

\* the CLI's --models: none, either configured name, a name that is not configured
ModelFilters == {{}, {"alpha"}, {"beta"}, {"gamma"}}

\* cfg.models = [m for m in cfg.models if m.name in model_set]
FilterModels(models, filter) ==
    IF filter # {} THEN SelectSeq(models, LAMBDA m : m.name \in filter) ELSE models

CurModel == cfg.models[mi]

CurVariant == LoopVariants(cfg)[vi]

PrevKey == <<CurModel.model_id, CurVariant.name>>

\* _prev_lookup built from the report's entries; a later entry replaces an earlier one
BuildLookup(report) ==
    LET keyOf(e) == <<e.model, e.prompt_variant>>
        keys == {keyOf(report.models[i]) : i \in DOMAIN report.models}
        last(k) == CHOOSE i \in DOMAIN report.models :
                      /\ keyOf(report.models[i]) = k
                      /\ \A j \in DOMAIN report.models :
                            keyOf(report.models[j]) = k => j <= i
    IN  [k \in keys |-> report.models[last(k)]]

SkipOnPromptsOnly(prev_entry, variant) ==
    prev_entry.prompt_variant_prompts = variant.prompts

\* version_match and prompts_match (runner.py:305-309)
SkipMatch(prev_entry, variant) ==
    /\ prev_version = openclaw_version
    /\ prev_entry.prompt_variant_prompts = variant.prompts

\* the pair is skipped: the prior entry is carried over
WillSkip ==
    /\ skip_completed
    /\ PrevKey \in DOMAIN prev_lookup
    /\ SkipMatch(prev_lookup[PrevKey], CurVariant)

RetryUnbounded(c) == c.retries + 2

\* range(1, cfg.retries + 1 + 1): the last attempt number
LastAttempt(c) == c.retries + 1

AdvanceToNextModel ==
    IF mi < Len(cfg.models)
    THEN /\ vi' = 1 /\ mi' = mi + 1 /\ pc' = "model"
    ELSE /\ vi' = vi /\ mi' = mi /\ pc' = "save"

\* what follows the end of a (model, variant) pair: the next variant, the next
\* model, or the report
Advance ==
    IF vi < Len(LoopVariants(cfg))
    THEN /\ vi' = vi + 1 /\ mi' = mi /\ pc' = "variant"
    ELSE IF mi < Len(cfg.models)
    THEN /\ vi' = 1 /\ mi' = mi + 1 /\ pc' = "model"
    ELSE /\ vi' = vi /\ mi' = mi /\ pc' = "save"

\* history: what is known of the pair when the controller decides on it, read
\* from the report on disk and from the detected version
PairObserved(skipped) ==
    LET hits == {i \in DOMAIN latest.models :
                    /\ latest.models[i].model = CurModel.model_id
                    /\ latest.models[i].prompt_variant = CurVariant.name}
        last == CHOOSE i \in hits : \A j \in hits : j <= i
        has  == latest # None /\ hits # {}
    IN  [model |-> CurModel.model_id, variant |-> CurVariant.name,
         skipped |-> skipped, done |-> skipped, calls |-> 0, records |-> 0,
         had_entry |-> has,
         prior_entry |-> IF has THEN latest.models[last] ELSE None,
         prior_version |-> IF latest # None THEN latest.openclaw_version ELSE "",
         version |-> openclaw_version,
         prompts |-> CurVariant.prompts]

\* load_config, --runs, "no models configured", the --models filter (runner.py:203-219)
LoadConfig ==
    /\ pc = "start"
    /\ \E cm \in {<<>>, ConfigModels}, pv \in ConfigVariants, filter \in ModelFilters,
          r \in 0..MaxRetries, rpm \in 0..MaxRuns :
          LET c == [models |-> FilterModels(cm, filter), prompt_variants |-> pv,
                    retries |-> r, runs_per_model |-> rpm]
          IN  /\ Len(c.models) * Len(LoopVariants(c)) * NRuns(c) <= MaxTrials
              /\ cfg' = c
              /\ pc' = IF c.models = <<>> THEN "exit1" ELSE "preflight"
    /\ UNCHANGED <<skip_completed, latest, openclaw_version, prev_lookup, prev_version,
                   mi, vi, run_idx, attempt, result, model_runs, aggregated,
                   attempt_log, calls, pair_log, trialVars, pureVars, sigVars, resVars>>

\* the pre-flight checks (runner.py:222-232)
Preflight ==
    /\ pc = "preflight"
    /\ \E skip_preflight \in BOOLEAN, all_passed \in BOOLEAN :
          pc' = IF ~skip_preflight /\ ~all_passed THEN "exit2" ELSE "early_version"
    /\ UNCHANGED <<cfg, skip_completed, latest, openclaw_version, prev_lookup,
                   prev_version, mi, vi, run_idx, attempt, result, model_runs,
                   aggregated, attempt_log, calls, pair_log, trialVars, pureVars, sigVars, resVars>>

\* stop_gateway returns: the process has exited, or was terminated or killed
\* and waited for (environment.py:466-476)
StopGatewayLeavesProcess(g) == g
StopGateway(g) == g - 1

\* cleanup removes the temporary home directory (environment.py:479-483)
Cleanup(d) == d - 1

\* OpenClawEnvironment(cfg, model) returns: a fresh temporary home directory
\* (environment.py:132-168; run_dir is never passed)
Construct ==
    /\ env_dirs' = env_dirs + 1
    /\ active_envs' = active_envs + 1
    /\ UNCHANGED <<keep_env, gateways>>

\* OpenClawEnvironment(cfg, model) raises: in mkdtemp, or in the mkdir after it,
\* which leaves the directory behind (environment.py:147, 159)
ConstructRaises ==
    /\ env_dirs' \in {env_dirs, env_dirs + 1}
    /\ UNCHANGED <<keep_env, active_envs, gateways>>

\* the finally clause of run_single_model (runner.py:171-180)
Teardown(gateway_started) ==
    /\ gateways' = IF gateway_started THEN StopGateway(gateways) ELSE gateways
    /\ env_dirs' = IF keep_env THEN env_dirs ELSE Cleanup(env_dirs)
    /\ active_envs' = active_envs - 1
    /\ UNCHANGED keep_env

\* the environment of the early version detection is created (runner.py:239)
EarlyEnv ==
    /\ pc = "early_version"
    /\ Construct
    /\ pc' = "early_detect"
    /\ UNCHANGED <<cfg, skip_completed, latest, openclaw_version, prev_lookup,
                   prev_version, mi, vi, run_idx, attempt, result, model_runs,
                   aggregated, attempt_log, calls, pair_log, trialVars, pureVars, sigVars>>

\* early version detection: install (its exceptions are swallowed), detect,
\* cleanup (runner.py:240-249)
EarlyVersion ==
    /\ pc = "early_detect"
    /\ \E detected \in Versions :
          openclaw_version' = IF detected # Unknown THEN detected ELSE openclaw_version
    /\ env_dirs' = Cleanup(env_dirs)
    /\ active_envs' = active_envs - 1
    /\ pc' = "lookup"
    /\ UNCHANGED <<cfg, skip_completed, latest, prev_lookup, prev_version, mi, vi,
                   run_idx, attempt, result, model_runs, aggregated, attempt_log,
                   calls, pair_log, trialVars, pureVars, sigVars, keep_env, gateways>>

\* OpenClawEnvironment(cfg, cfg.models[0]) raises (mkdtemp, mkdir): nothing in
\* run_benchmark catches it (runner.py:239, environment.py:147-159)
EarlyVersionRaises ==
    /\ pc = "early_version"
    /\ ConstructRaises
    /\ pc' = "crashed"
    /\ UNCHANGED <<cfg, skip_completed, latest, openclaw_version, prev_lookup,
                   prev_version, mi, vi, run_idx, attempt, result, model_runs,
                   aggregated, attempt_log, calls, pair_log, trialVars, pureVars, sigVars>>

\* the skip-completed lookup (runner.py:251-273)
SkipLookup ==
    /\ pc = "lookup"
    /\ IF skip_completed /\ LoadLatestReport(latest) # None
       THEN /\ prev_version' = LoadLatestReport(latest).openclaw_version
            /\ prev_lookup' = BuildLookup(LoadLatestReport(latest))
       ELSE UNCHANGED <<prev_version, prev_lookup>>
    /\ pc' = "model"
    /\ UNCHANGED <<cfg, skip_completed, latest, openclaw_version, mi, vi, run_idx, attempt, result,
                   model_runs, aggregated, attempt_log, calls, pair_log, trialVars, pureVars, sigVars, resVars>>

\* the head of the model loop: warm_up_model (runner.py:285-297)
WarmUp ==
    /\ pc = "model"
    /\ pc' = "variant"
    /\ UNCHANGED <<cfg, skip_completed, latest, openclaw_version, prev_lookup,
                   prev_version, mi, vi, run_idx, attempt, result, model_runs,
                   aggregated, attempt_log, calls, pair_log, trialVars, pureVars, sigVars, resVars>>

\* the pair is in the latest report with the same version and prompts (runner.py:300-332)
SkipPair ==
    /\ pc = "variant"
    /\ WillSkip
    /\ aggregated' = Append(aggregated, CarryOver(prev_lookup[PrevKey]))
    /\ pair_log' = Append(pair_log, PairObserved(TRUE))
    /\ Advance
    /\ UNCHANGED <<cfg, skip_completed, latest, openclaw_version, prev_lookup,
                   prev_version, run_idx, attempt, result, model_runs, attempt_log,
                   calls, trialVars, pureVars, sigVars, resVars>>

\* the pair is run: model_runs = [], the first run starts (runner.py:333-357)
StartPair ==
    /\ pc = "variant"
    /\ ~WillSkip
    /\ model_runs' = <<>>
    /\ run_idx' = 1
    /\ result' = None
    /\ attempt' = 1
    /\ attempt_log' = <<>>
    /\ calls' = 0
    /\ pair_log' = Append(pair_log, PairObserved(FALSE))
    /\ pc' = "attempt"
    /\ UNCHANGED <<cfg, skip_completed, latest, openclaw_version, prev_lookup,
                   prev_version, mi, vi, aggregated, trialVars, pureVars, sigVars, resVars>>

\* run_single_model is entered: its environment is created and registered
\* (runner.py:365-371, 110-112)
EnterTrial ==
    /\ pc = "attempt"
    /\ Construct
    /\ pc' = "trial"
    /\ UNCHANGED <<cfg, skip_completed, latest, openclaw_version, prev_lookup,
                   prev_version, mi, vi, run_idx, attempt, result, model_runs,
                   aggregated, attempt_log, calls, pair_log, trialVars, pureVars, sigVars>>

\* steps 1 to 4 succeeded: the gateway process is started (runner.py:114-146)
Provision ==
    /\ pc = "trial"
    /\ gateways' = gateways + 1
    /\ pc' = "conversation"
    /\ UNCHANGED <<cfg, skip_completed, latest, openclaw_version, prev_lookup,
                   prev_version, mi, vi, run_idx, attempt, result, model_runs,
                   aggregated, attempt_log, calls, pair_log, trialVars, pureVars, sigVars,
                   keep_env, env_dirs, active_envs>>

\* run_single_model returns through its finally clause, and the rest of the
\* iteration of the retry loop (runner.py:128-141, 154-180, 359-395)
RunAttempt ==
    /\ pc \in {"trial", "conversation"}
    /\ Teardown(pc = "conversation")
    /\ \E o \in TrialOutcomes(CurModel, CurVariant.prompts), detected \in Versions :
          \* before the gateway is started the function returns on a failed onboarding
          /\ (o = OutcomeOnboardFailed(CurModel)) <=> (pc = "trial")
          /\ openclaw_version' =
                IF detected # Unknown THEN detected ELSE openclaw_version
          /\ result' = KeptResult(result, o)
          /\ attempt_log' = IF attempt = 1 THEN <<o>> ELSE Append(attempt_log, o)
          /\ calls' = calls + 1
          /\ IF ~InfraFailure(o.br, o.vr)
             THEN /\ pc' = "append" /\ attempt' = attempt
             ELSE IF attempt < LastAttempt(cfg)
             THEN /\ pc' = "attempt" /\ attempt' = attempt + 1
             ELSE /\ pc' = "append" /\ attempt' = attempt
    /\ UNCHANGED <<cfg, skip_completed, latest, prev_lookup, prev_version, mi, vi,
                   run_idx, model_runs, aggregated, pair_log, trialVars, pureVars, sigVars>>

\* run_single_model raises: the constructor of the environment is outside its try
\* (runner.py:110), and stop_gateway in its finally can raise, which skips the
\* cleanup after it (runner.py:174-177, environment.py:475); run_benchmark does
\* not catch
RunAttemptRaises ==
    /\ \/ /\ pc = "attempt"
          /\ ConstructRaises
          /\ UNCHANGED openclaw_version
       \/ /\ pc = "conversation"
          /\ \E detected \in Versions :
                openclaw_version' =
                    IF detected # Unknown THEN detected ELSE openclaw_version
          /\ UNCHANGED resVars
    /\ calls' = calls + 1
    /\ pc' = "crashed"
    /\ UNCHANGED <<cfg, skip_completed, latest, prev_lookup, prev_version, mi, vi,
                   run_idx, attempt, result, model_runs, aggregated, attempt_log,
                   pair_log, trialVars, pureVars, sigVars>>

\* model_runs.append(result), then the next run (runner.py:397-401, 351-357)
AppendRun ==
    /\ pc = "append"
    /\ model_runs' = Append(model_runs, result)
    /\ IF run_idx < NRuns(cfg)
       THEN /\ run_idx' = run_idx + 1
            /\ result' = None
            /\ attempt' = 1
            /\ pc' = "attempt"
       ELSE /\ pc' = "aggregate"
            /\ UNCHANGED <<run_idx, result, attempt>>
    /\ UNCHANGED <<cfg, skip_completed, latest, openclaw_version, prev_lookup,
                   prev_version, mi, vi, aggregated, attempt_log, calls, pair_log,
                   trialVars, pureVars, sigVars, resVars>>

\* aggregated.append(aggregate_runs(...)) (runner.py:403-407)
AggregatePair ==
    /\ pc = "aggregate"
    /\ aggregated' = Append(aggregated,
           AggregateRuns(CurModel.model_id, model_runs, CurVariant.name,
                         CurVariant.prompts))
    /\ pair_log' = [pair_log EXCEPT ![Len(pair_log)] =
           [@ EXCEPT !.done = TRUE, !.calls = calls, !.records = Len(model_runs)]]
    /\ Advance
    /\ UNCHANGED <<cfg, skip_completed, latest, openclaw_version, prev_lookup,
                   prev_version, run_idx, attempt, result, model_runs, attempt_log,
                   calls, trialVars, pureVars, sigVars, resVars>>

\* save_json_report up to the opening of benchmark_latest.json: the dated report
\* is written, then the latest file is truncated (report.py:190-265)
SaveOpen ==
    /\ pc = "save"
    /\ \/ /\ latest' = TruncatedFile
          /\ pc' = "save_latest"
       \/ \* writing the dated report raises OSError
          /\ pc' = "save_failed"
          /\ UNCHANGED latest
    /\ UNCHANGED <<cfg, skip_completed, openclaw_version, prev_lookup, prev_version,
                   mi, vi, run_idx, attempt, result, model_runs, aggregated,
                   attempt_log, calls, pair_log, trialVars, pureVars, sigVars, resVars>>

\* json.dump into benchmark_latest.json and the return of run_benchmark
\* (report.py:265-268, runner.py:409-428)
SaveReports ==
    /\ pc = "save_latest"
    /\ \/ /\ latest' = SaveJsonReport(aggregated, openclaw_version)
          /\ pc' = "returned"
       \/ \* the write raises OSError, or the process is killed, part-way
          /\ latest' \in {TruncatedFile, PartialFile}
          /\ pc' = "save_failed"
    /\ UNCHANGED <<cfg, skip_completed, openclaw_version, prev_lookup, prev_version,
                   mi, vi, run_idx, attempt, result, model_runs, aggregated,
                   attempt_log, calls, pair_log, trialVars, pureVars, sigVars, resVars>>

AnyFailedByBootstrapRate(results) ==
    \E i \in DOMAIN results : RatLess(results[i].bootstrap_rate, Rat(1, 1))

\* any(ag.perfect_rate < 1.0 for ag in results) (run_benchmark.py:122)
AnyFailed(results) ==
    \E i \in DOMAIN results : RatLess(results[i].perfect_rate, Rat(1, 1))

\* main: sys.exit(1 if any_failed else 0) (run_benchmark.py:110-123)
MainExit ==
    /\ pc = "returned"
    /\ pc' = IF AnyFailed(aggregated) THEN "exit1" ELSE "exit0"
    /\ UNCHANGED <<cfg, skip_completed, latest, openclaw_version, prev_lookup,
                   prev_version, mi, vi, run_idx, attempt, result, model_runs,
                   aggregated, attempt_log, calls, pair_log, trialVars, pureVars, sigVars,
                   resVars>>

\* verify_bootstrap and aggregate_runs are not being called on their own
PureIdle ==
    /\ files = None
    /\ verified = <<>>
    /\ agg_runs = <<>>
    /\ agg_out = None

\* no environment exists and no gateway runs
ResIdle ==
    /\ keep_env = FALSE
    /\ env_dirs = 0
    /\ active_envs = 0
    /\ gateways = 0

\* the registry is empty and no handler runs (runner.py:54-56)
SigIdle ==
    /\ mpos = "idle"
    /\ pending = "none"
    /\ hstack = <<>>
    /\ active_env = FALSE
    /\ active_gateway = FALSE
    /\ gateway_proc = FALSE
    /\ stops = 0
    /\ events = <<>>
    /\ hit_at = <<>>
    /\ exit_path = "none"

TrialIdle ==
    /\ tpc = "idle"
    /\ tcfg = None
    /\ elapsed = 0
    /\ conv = None
    /\ ws = FALSE
    /\ ws_seen = None
    /\ turn_log = <<>>
    /\ cause = {}
    /\ ret = None

Init ==
    /\ pc = "start"
    /\ cfg = None
    /\ skip_completed \in BOOLEAN
    \* the latest report is read only under --skip-completed (runner.py:259-260)
    /\ latest \in IF skip_completed THEN PriorReports ELSE {None}
    /\ openclaw_version = Unknown
    /\ prev_lookup = <<>>
    /\ prev_version = ""
    /\ mi = 1
    /\ vi = 1
    /\ run_idx = 0
    /\ attempt = 0
    /\ result = None
    /\ model_runs = <<>>
    /\ aggregated = <<>>
    /\ attempt_log = <<>>
    /\ calls = 0
    /\ pair_log = <<>>
    /\ keep_env \in BOOLEAN
    /\ env_dirs = 0
    /\ active_envs = 0
    /\ gateways = 0
    /\ SigIdle
    /\ TrialIdle
    /\ PureIdle

Next ==
    \/ LoadConfig
    \/ Preflight
    \/ EarlyEnv
    \/ EarlyVersion
    \/ EarlyVersionRaises
    \/ SkipLookup
    \/ WarmUp
    \/ SkipPair
    \/ StartPair
    \/ EnterTrial
    \/ Provision
    \/ RunAttempt
    \/ RunAttemptRaises
    \/ AppendRun
    \/ AggregatePair
    \/ SaveOpen
    \/ SaveReports
    \/ MainExit

Spec == Init /\ [][Next]_vars

----------------------------------------------------------------------------
\* Claims about run_benchmark, checked under Spec.

\* no top-level error and every turn succeeded
CleanAttempt(o) ==
    /\ o.br.error = ""
    /\ \A i \in DOMAIN o.br.turns : o.br.turns[i].success

LastOf(s) == s[Len(s)]

\* the retry loop is between two attempts of one trial
Retrying == pc = "attempt" /\ result # None

\* C1: an attempt with no top-level error and no failed turn is the last attempt of
\* its trial, whatever its score: once it is in the log no further call of
\* run_single_model is pending for the trial, and it is the candidate that is kept.
C1_CleanAttemptNeverRetried ==
    \A i \in DOMAIN attempt_log :
        CleanAttempt(attempt_log[i]) =>
            /\ i = Len(attempt_log)
            /\ ~Retrying
            /\ pc = "append" => result = attempt_log[i]

C1_Witness ==
    /\ pc = "append"
    /\ cfg.retries >= 1
    /\ attempt = 1
    /\ CleanAttempt(LastOf(attempt_log))
    /\ LastOf(attempt_log).vr.score = Rat(0, 1)
    /\ LastOf(attempt_log).br.turns # <<>>

\* C2: an attempt is retried iff it carries a top-level error or a failed turn and
\* fewer than cfg.retries retries were made; a trial makes between 1 and
\* cfg.retries + 1 attempts.
C2_RetryIffInfraWithinBound ==
    /\ cfg # None => Len(attempt_log) <= cfg.retries + 1
    /\ Retrying =>
          /\ attempt = Len(attempt_log) + 1
          /\ \A i \in DOMAIN attempt_log : ~CleanAttempt(attempt_log[i])
    /\ pc = "append" =>
          /\ Len(attempt_log) >= 1
          /\ attempt = Len(attempt_log)
          /\ \A i \in 1..(Len(attempt_log) - 1) : ~CleanAttempt(attempt_log[i])
          /\ ~CleanAttempt(LastOf(attempt_log)) => Len(attempt_log) = cfg.retries + 1

C2_Witness ==
    /\ pc = "append"
    /\ cfg.retries = 1
    /\ Len(attempt_log) = 2
    /\ attempt_log[1].br.error = ""
    /\ attempt_log[1].vr.score = Rat(3, 4)
    /\ CleanAttempt(attempt_log[2])

\* C3: when every attempt of a trial failed on infrastructure and the retries are
\* used up, the candidate, and then the record appended to model_runs, is the pair
\* of the last attempt, and the trial adds exactly one record.
C3_LastAttemptKept ==
    LET exhausted == /\ attempt_log # <<>>
                     /\ Len(attempt_log) = cfg.retries + 1
                     /\ \A i \in DOMAIN attempt_log : ~CleanAttempt(attempt_log[i])
    IN  /\ (pc = "append" /\ exhausted) =>
              /\ result = LastOf(attempt_log)
              /\ Len(model_runs) = run_idx - 1
        /\ (pc = "aggregate" /\ exhausted) =>
              /\ LastOf(model_runs) = LastOf(attempt_log)
              /\ Len(model_runs) = run_idx
        /\ (pc = "attempt" /\ result = None /\ run_idx > 1 /\ exhausted) =>
              /\ LastOf(model_runs) = LastOf(attempt_log)
              /\ Len(model_runs) = run_idx - 1

C3_Witness ==
    /\ pc = "aggregate"
    /\ Len(attempt_log) = 2
    /\ attempt_log[1] # attempt_log[2]
    /\ \A i \in DOMAIN attempt_log : ~CleanAttempt(attempt_log[i])
    /\ LastOf(model_runs) = attempt_log[2]

\* C4: a pair is skipped only under --skip-completed, with an entry of that key in
\* the latest report, the report's version equal to the detected version and the
\* entry's prompts equal to the variant's prompts; a skipped pair makes no call of
\* run_single_model, and a pair that is not skipped is run with all n_runs runs.
C4_SkipOnlyOnFullMatch ==
    \A i \in DOMAIN pair_log :
        LET e == pair_log[i]
        IN  /\ e.skipped =>
                  /\ skip_completed
                  /\ e.had_entry
                  /\ e.prior_version = e.version
                  /\ e.prior_entry.prompt_variant_prompts = e.prompts
                  /\ e.calls = 0
            /\ (~e.skipped /\ e.done) =>
                  /\ e.records = NRuns(cfg)
                  /\ e.calls >= NRuns(cfg)

\* alpha's prompts differ by one character and it is re-run; beta is skipped
C4_Witness ==
    /\ Len(pair_log) = 2
    /\ ~pair_log[1].skipped /\ pair_log[1].done
    /\ pair_log[1].had_entry
    /\ pair_log[1].prior_version = pair_log[1].version
    /\ pair_log[1].prior_entry.prompt_variant_prompts = <<"p1", "pX">>
    /\ pair_log[1].prompts = <<"p1", "p2">>
    /\ pair_log[2].skipped

\* C5: the entry the new report holds for a skipped pair equals, field for field,
\* the entry read from the prior latest report.
C5_CarriedEntryVerbatim ==
    pc = "returned" =>
        /\ Len(latest.models) = Len(pair_log)
        /\ \A i \in DOMAIN pair_log :
              pair_log[i].skipped => latest.models[i] = pair_log[i].prior_entry

C5_Witness ==
    /\ pc = "returned"
    /\ \E i \in DOMAIN pair_log :
          /\ pair_log[i].skipped
          /\ latest.models[i].avg_score = Rat(5833, 10000)
          /\ latest.models[i].avg_duration_s = Rat(117, 100)
          /\ Len(latest.models[i].runs) = 3

----------------------------------------------------------------------------
\* runner.py, bootstrap.py: one call of run_single_model (SpecTrial).

\* the message of the synthetic turn (bootstrap.py:135)
GlobalTimeoutMsg == "Global bootstrap timeout exceeded"

\* subprocess.run(..., timeout=timeout + 30) in send_agent_message
TimeoutBuffer == 30

\* the first k prompts of a variant
Prompts(k) == [i \in 1..k |-> "p" \o ToString(i)]

\* a bootstrap_timeout that outlasts one timed-out turn, in seconds
LongTimeout == TimeoutBuffer + MaxTimeout + 1

\* the part of BenchmarkConfig and of the variant that a trial reads
TrialConfigs ==
    [prompts : {Prompts(k) : k \in 0..MaxPrompts},
     bootstrap_timeout : 0..MaxTimeout \cup {LongTimeout},
     agent_turn_timeout : 1..MaxTimeout]

\* how long a send_agent_message call that returns can take, in ticks: a fraction
\* of a second, a second and a fraction, the longest bootstrap_timeout
SendDurations == {1, Res + 1, MaxTimeout * Res}


ErrorPairWithChecks(model, text) ==
    [br |-> [BootstrapResult(model.model_id) EXCEPT !.error = text],
     vr |-> VerifyBootstrap(model.model_id, <<FALSE, FALSE, FALSE, FALSE>>)]

\* the pair built by the except clause and by the onboarding branch
\* (runner.py:138-141, 167-170)
ErrorPair(model, text) ==
    [br |-> [BootstrapResult(model.model_id) EXCEPT !.error = text],
     vr |-> VerificationResult(model.model_id)]

\* return through the finally clause (runner.py:171-180): stop_gateway runs when
\* the gateway was started, and an exception it raises replaces the return
TrialReturn(pair, gateway_started) ==
    /\ tpc' \in IF gateway_started THEN {"returned", "raised"} ELSE {"returned"}
    /\ ret' = IF tpc' = "returned" THEN pair ELSE None

\* run_benchmark is not running: its variables as a trial leaves them
OrchUnchanged ==
    UNCHANGED <<pc, cfg, skip_completed, latest, prev_lookup, prev_version, mi, vi,
                run_idx, attempt, result, model_runs, aggregated, attempt_log,
                calls, pair_log, resVars>>

\* steps 1 and the version detection (runner.py:114-126)
Install ==
    /\ tpc = "install"
    /\ \/ \* install_openclaw raises (check=True, timeout=300): the except clause
          /\ cause' = cause \cup {"install_raised"}
          /\ TrialReturn(ErrorPair(ModelAlpha, "npm install failed"), FALSE)
          /\ UNCHANGED openclaw_version
       \/ \* installed or skipped, then the version is detected
          /\ \E detected \in Versions :
                openclaw_version' =
                    IF detected # Unknown THEN detected ELSE openclaw_version
          /\ tpc' = "onboard"
          /\ UNCHANGED <<cause, ret>>
    /\ UNCHANGED <<tcfg, elapsed, conv, ws, ws_seen, turn_log>>
    /\ OrchUnchanged
    /\ UNCHANGED <<pureVars, sigVars>>

\* steps 2 and 3 (runner.py:128-141)
Onboard ==
    /\ tpc = "onboard"
    /\ \/ \* write_config or run_onboard raises: the except clause
          /\ cause' = cause \cup {"config_raised"}
          /\ TrialReturn(ErrorPair(ModelAlpha, "cannot write config"), FALSE)
          /\ UNCHANGED ws
       \/ \* onboarding exits non-zero
          /\ cause' = cause \cup {"onboard_failed"}
          /\ TrialReturn(ErrorPair(ModelAlpha, "Onboarding failed"), FALSE)
          /\ UNCHANGED ws
       \/ \* onboarding succeeds; it may or may not have seeded BOOTSTRAP.md
          /\ ws' \in BOOLEAN
          /\ tpc' = "gateway"
          /\ UNCHANGED <<cause, ret>>
    /\ UNCHANGED <<tcfg, elapsed, conv, ws_seen, turn_log, openclaw_version>>
    /\ OrchUnchanged
    /\ UNCHANGED <<pureVars, sigVars>>

\* where the prompt loop stands when n turns are recorded (bootstrap.py:129)
LoopPos(n, prompts) == IF n < Len(prompts) THEN "turn" ELSE "finish"

\* step 4 and the start of the conversation (runner.py:143-156, bootstrap.py:125-127)
StartGateway ==
    /\ tpc = "gateway"
    /\ \/ \* start_gateway raises (Popen): the except clause, no process to stop
          /\ cause' = cause \cup {"gateway_raised"}
          /\ TrialReturn(ErrorPair(ModelAlpha, "openclaw not found"), FALSE)
          /\ UNCHANGED <<conv, elapsed>>
       \/ \* started (ready or not, the trial proceeds): t0 is taken
          /\ conv' = BootstrapResult(ModelAlpha.model_id)
          /\ elapsed' = 0
          /\ tpc' = LoopPos(0, tcfg.prompts)
          /\ UNCHANGED <<cause, ret>>
    /\ UNCHANGED <<tcfg, ws, ws_seen, turn_log, openclaw_version>>
    /\ OrchUnchanged
    /\ UNCHANGED <<pureVars, sigVars>>

\* remaining = cfg.bootstrap_timeout - (time.time() - t0), in ticks (bootstrap.py:133)
Remaining(c, e) == c.bootstrap_timeout * Res - e

DeadlineHitStrict(remaining) == remaining < 0

\* if remaining <= 0 (bootstrap.py:134)
DeadlineHit(remaining) == remaining <= 0

TurnTimeoutPerTurnOnly(c, remaining) == c.agent_turn_timeout

\* min(cfg.agent_turn_timeout, int(remaining)), in seconds (bootstrap.py:140);
\* int() truncates, and remaining is positive where this is computed
TurnTimeout(c, remaining) == Min(c.agent_turn_timeout, remaining \div Res)

\* the bound of the blocking call, in ticks (bootstrap.py:98-104)
SendBound(timeout) == (timeout + TimeoutBuffer) * Res

\* a reply of the model that itself begins with the error marker
ModelErrorText == "[ERROR] I will not answer that"

\* response.startswith("[ERROR]"), over the responses of the model
StartsWithError(response) == response \in {AgentError, ModelErrorText}

\* what one call of send_agent_message can do
SendKinds == {"ok", "model_error_text", "send_exit_nonzero", "send_timeout", "send_raised"}

\* (response, dur) as send_agent_message returns it (bootstrap.py:105-112)
SendResponse(kind) ==
    CASE kind = "ok" -> "done"
      [] kind = "model_error_text" -> ModelErrorText
      [] kind = "send_exit_nonzero" -> AgentError

\* the turn built by one iteration that sends (bootstrap.py:131, 142-154)
SentTurn(prompt, kind, dur, timeout) ==
    CASE kind = "send_timeout" ->
            [BootstrapTurn(prompt) EXCEPT
                !.error = "Turn timed out after " \o ToString(timeout) \o "s",
                !.success = FALSE]
      [] kind = "send_raised" ->
            [BootstrapTurn(prompt) EXCEPT
                !.error = "[Errno 2] No such file or directory: 'openclaw'",
                !.success = FALSE]
      [] OTHER ->
            LET response == SendResponse(kind)
                success  == ~StartsWithError(response)
            IN  [BootstrapTurn(prompt) EXCEPT
                    !.response = response,
                    !.duration_s = Rat(dur, Res),
                    !.success = success,
                    !.error = IF success THEN "" ELSE response]

\* how long the call took, in ticks: a call that returns takes one of SendDurations
\* (a failing one the shortest), a call that raises TimeoutExpired its whole bound
SendTook(kind, timeout) ==
    CASE kind = "ok" -> SendDurations
      [] kind = "send_timeout" -> {SendBound(timeout)}
      [] OTHER -> {1}

AfterSendAbortOnFailure(turn, n, prompts) ==
    IF turn.success THEN LoopPos(n, prompts) ELSE "finish"

\* after a sent turn is appended the loop goes on, failed or not (bootstrap.py:156-160)
AfterSend(turn, n, prompts) == LoopPos(n, prompts)

\* one iteration of the prompt loop whose deadline check fires (bootstrap.py:129-138)
DeadlineTurn ==
    /\ tpc = "turn"
    /\ LET i         == Len(conv.turns) + 1
           remaining == Remaining(tcfg, elapsed)
           turn      == [BootstrapTurn(tcfg.prompts[i]) EXCEPT !.error = GlobalTimeoutMsg]
       IN  /\ DeadlineHit(remaining)
           /\ conv' = [conv EXCEPT !.turns = Append(@, turn), !.error = turn.error]
           /\ turn_log' = Append(turn_log,
                  [remaining |-> remaining, sent |-> FALSE, timeout |-> 0,
                   took |-> 0, turn |-> turn])
           /\ cause' = cause \cup {"deadline"}
           /\ tpc' = "finish"
    /\ UNCHANGED <<tcfg, elapsed, ws, ws_seen, ret, openclaw_version>>
    /\ OrchUnchanged
    /\ UNCHANGED <<pureVars, sigVars>>

\* one iteration of the prompt loop that sends its prompt (bootstrap.py:129-160)
SendTurn ==
    /\ tpc = "turn"
    /\ LET i         == Len(conv.turns) + 1
           remaining == Remaining(tcfg, elapsed)
           timeout   == TurnTimeout(tcfg, remaining)
       IN  /\ ~DeadlineHit(remaining)
           /\ \E kind \in SendKinds : \E took \in SendTook(kind, timeout) :
                LET turn == SentTurn(tcfg.prompts[i], kind, took, timeout)
                IN  /\ conv' = [conv EXCEPT !.turns = Append(@, turn)]
                    /\ elapsed' = elapsed + took
                    /\ turn_log' = Append(turn_log,
                           [remaining |-> remaining, sent |-> TRUE,
                            timeout |-> timeout, took |-> took, turn |-> turn])
                    /\ cause' = IF kind = "ok" THEN cause ELSE cause \cup {kind}
                    \* the agent may delete BOOTSTRAP.md, or write it back
                    /\ ws' \in IF kind = "send_raised" THEN {ws} ELSE BOOLEAN
                    /\ tpc' = AfterSend(turn, i, tcfg.prompts)
    /\ UNCHANGED <<tcfg, ws_seen, ret, openclaw_version>>
    /\ OrchUnchanged
    /\ UNCHANGED <<pureVars, sigVars>>

BootstrapCompletedOnlyIfNoError(res, exists) == ~exists /\ res.error = ""

\* result.bootstrap_completed = not bootstrap_path.exists() (bootstrap.py:165-166)
BootstrapCompleted(res, exists) == ~exists

\* the end of run_bootstrap_conversation (bootstrap.py:162-173)
Finish ==
    /\ tpc = "finish"
    /\ conv' = [conv EXCEPT
                   !.total_duration_s = Rat(elapsed, Res),
                   !.bootstrap_completed = BootstrapCompleted(conv, ws)]
    /\ ws_seen' = ws
    /\ tpc' = "verify"
    /\ UNCHANGED <<tcfg, elapsed, ws, turn_log, cause, ret, openclaw_version>>
    /\ OrchUnchanged
    /\ UNCHANGED <<pureVars, sigVars>>

\* step 6 and the return (runner.py:158-180)
Verify ==
    /\ tpc = "verify"
    /\ \/ \* verify_bootstrap raises on a file it cannot read as text
          \* (verify.py:178, read_text outside any try): the except clause
          /\ cause' = cause \cup {"verify_raised"}
          /\ TrialReturn(ErrorPair(ModelAlpha, "'utf-8' codec can't decode byte 0xff"), TRUE)
       \/ \E flags \in [2..4 -> BOOLEAN] :
            LET all == [k \in 1..4 |-> IF k = 1 THEN ~ws ELSE flags[k]]
            IN  /\ TrialReturn([br |-> conv, vr |-> VerifyBootstrap(ModelAlpha.model_id, all)],
                               TRUE)
                /\ UNCHANGED cause
    /\ UNCHANGED <<tcfg, elapsed, conv, ws, ws_seen, turn_log, openclaw_version>>
    /\ OrchUnchanged
    /\ UNCHANGED <<pureVars, sigVars>>

\* run_single_model is entered with a configuration; run_benchmark waits in its
\* retry loop
InitTrial ==
    /\ pc = "attempt"
    /\ cfg = None
    /\ skip_completed = FALSE
    /\ latest = None
    /\ openclaw_version = Unknown
    /\ prev_lookup = <<>>
    /\ prev_version = ""
    /\ mi = 1
    /\ vi = 1
    /\ run_idx = 1
    /\ attempt = 1
    /\ result = None
    /\ model_runs = <<>>
    /\ aggregated = <<>>
    /\ attempt_log = <<>>
    /\ calls = 0
    /\ pair_log = <<>>
    /\ ResIdle
    /\ SigIdle
    /\ tpc = "install"
    /\ tcfg \in TrialConfigs
    /\ elapsed = 0
    /\ conv = None
    /\ ws = FALSE
    /\ ws_seen = None
    /\ turn_log = <<>>
    /\ cause = {}
    /\ ret = None
    /\ PureIdle

NextTrial ==
    \/ Install
    \/ Onboard
    \/ StartGateway
    \/ DeadlineTurn
    \/ SendTurn
    \/ Finish
    \/ Verify

SpecTrial == InitTrial /\ [][NextTrial]_vars

----------------------------------------------------------------------------
\* Properties of run_bootstrap_conversation and run_single_model, under SpecTrial.

\* the iterations of the prompt loop whose prompt was sent
SentIters == {i \in DOMAIN turn_log : turn_log[i].sent}

\* the prompt loop is over
LoopOver == conv # None /\ tpc # "turn"

\* the recorded turns are the turns as they were appended, one per iteration
TurnsKept ==
    /\ Len(conv.turns) = Len(turn_log)
    /\ \A i \in DOMAIN turn_log : conv.turns[i] = turn_log[i].turn

\* the contract of the deadline check, for a given text of the synthetic turn
DeadlineContract(msg) ==
    conv # None =>
        /\ TurnsKept
        /\ \A i \in DOMAIN turn_log :
              /\ turn_log[i].sent <=> turn_log[i].remaining > 0
              /\ ~turn_log[i].sent =>
                    /\ i = Len(turn_log)
                    /\ tpc # "turn"
                    /\ ~conv.turns[i].success
                    /\ conv.turns[i].error = msg
                    /\ conv.turns[i].prompt = tcfg.prompts[i]
        \* three prompts, the deadline passes during the second
        /\ ( /\ Len(tcfg.prompts) = 3
             /\ LoopOver
             /\ Len(turn_log) >= 2
             /\ turn_log[2].sent
             /\ turn_log[2].remaining - turn_log[2].took <= 0 )
           => /\ Len(conv.turns) = 3
              /\ ~conv.turns[3].success
              /\ conv.turns[3].error = msg

\* C6: before each turn the time left to the global deadline is computed; when it is
\* <= 0 a synthetic failed turn with the text "Global bootstrap timeout exceeded" is
\* appended (the same text becomes the top-level error), no further prompt is sent
\* and the turns recorded before are kept; with 3 prompts and the deadline passing
\* after prompt 2 the result has exactly 3 turns, the third being that turn.
C6_DeadlineTurnEndsLoop ==
    /\ DeadlineContract(GlobalTimeoutMsg)
    /\ conv # None =>
          (conv.error = GlobalTimeoutMsg <=> \E i \in DOMAIN turn_log : ~turn_log[i].sent)

\* C6 as stated: the synthetic turn carries the message "deadline exceeded"
C6_DeadlineExceededMessage == DeadlineContract("deadline exceeded")

C6_Witness ==
    /\ tpc = "finish"
    /\ Len(tcfg.prompts) = 3
    /\ Len(conv.turns) = 3
    /\ turn_log[1].turn.success
    /\ turn_log[2].sent
    /\ ~turn_log[3].sent

\* C7: every sent turn is sent while remaining > 0, with the timeout
\* min(agent_turn_timeout, int(remaining)): the largest whole number of seconds that
\* exceeds neither the per-turn timeout nor the time left (0 when less than a
\* second is left); the blocking call is bounded by that timeout plus 30 seconds.
C7_TurnTimeoutWholeSeconds ==
    \A i \in SentIters :
        LET e == turn_log[i]
        IN  /\ e.remaining > 0
            /\ e.timeout >= 0
            /\ e.timeout <= tcfg.agent_turn_timeout
            /\ e.timeout * Res <= e.remaining
            /\ e.timeout = tcfg.agent_turn_timeout \/ (e.timeout + 1) * Res > e.remaining
            /\ e.took <= SendBound(e.timeout)

\* C7 as stated: the timeout equals min(perTurnTimeout, remaining)
C7_TurnTimeoutIsMin ==
    \A i \in SentIters :
        LET e == turn_log[i]
        IN  /\ e.remaining > 0
            /\ e.timeout * Res = Min(tcfg.agent_turn_timeout * Res, e.remaining)
            /\ e.took <= SendBound(e.timeout)

C7_Witness ==
    \E i \in SentIters :
        /\ turn_log[i].remaining % Res # 0
        /\ turn_log[i].timeout = 0
        /\ turn_log[i].took = SendBound(0)

\* C8: a sent turn that fails (error payload, timeout, exception) is recorded as a
\* failed turn with its error text and the driver goes on to the next prompt; the
\* turn list is append-only, in prompt order, never longer than the prompt list,
\* and as long as the deadline is not hit it ends with one turn per prompt.
C8_FailedTurnsRecordedLoopContinues ==
    conv # None =>
        /\ TurnsKept
        /\ Len(conv.turns) <= Len(tcfg.prompts)
        /\ \A i \in DOMAIN conv.turns : conv.turns[i].prompt = tcfg.prompts[i]
        /\ \A i \in SentIters :
              ~conv.turns[i].success =>
                  /\ conv.turns[i].error # ""
                  /\ i < Len(tcfg.prompts) => (tpc = "turn" \/ Len(conv.turns) > i)
        /\ (LoopOver /\ SentIters = DOMAIN turn_log) =>
              Len(conv.turns) = Len(tcfg.prompts)

C8_Witness ==
    /\ tpc = "verify"
    /\ Len(tcfg.prompts) = 3
    /\ Len(conv.turns) = 3
    /\ cause = {"send_timeout", "send_raised"}
    /\ ~conv.turns[1].success
    /\ ~conv.turns[2].success
    /\ conv.turns[3].success

\* C9: bootstrap_completed is decided once, after the last turn, and equals the
\* absence of BOOTSTRAP.md at that moment, whatever the turns and the top-level
\* error are; the result run_single_model returns for the conversation carries it.
C9_CompletedIsFileAbsence ==
    conv # None =>
        /\ tpc \in {"turn", "finish"} => (ws_seen = None /\ ~conv.bootstrap_completed)
        /\ tpc \notin {"turn", "finish"} =>
              (ws_seen \in BOOLEAN /\ conv.bootstrap_completed = ~ws_seen)
        /\ (tpc = "returned" /\ "verify_raised" \notin cause) => ret.br = conv

C9_Witness ==
    /\ tpc = "returned"
    /\ conv # None
    /\ ret.br.bootstrap_completed
    /\ ret.br.error = GlobalTimeoutMsg
    /\ ~ret.br.turns[1].success

\* the events of a trial that are failures of provisioning or of the transport;
\* running out of the global deadline is counted with them
InfraEvents ==
    {"install_raised", "config_raised", "onboard_failed", "gateway_raised",
     "send_exit_nonzero", "send_timeout", "send_raised", "deadline"}

\* C10: the top-level error of the result run_single_model returns is set only
\* when provisioning (install, onboarding, gateway) or the transport failed, never
\* as a consequence of what the model answered or did.
C10_ErrorOnlyOnInfraFailure ==
    (tpc = "returned" /\ ret.br.error # "") => cause \cap InfraEvents # {}

\* every turn succeeded within the deadline, and the result carries an error
C10_Witness ==
    /\ tpc = "returned"
    /\ ret.br.error # ""
    /\ cause = {"verify_raised"}
    /\ Len(turn_log) = 2
    /\ \A i \in DOMAIN turn_log : turn_log[i].turn.success

----------------------------------------------------------------------------
\* verify.py: the four checks on the files of a workspace (SpecVerify).

\* len(content.strip()) > 100 in check_identity
IdentityMinChars == 100
\* len(content.strip()) > 50 in check_user
UserMinChars == 50
\* len(content.strip()) > 200 in check_soul
SoulMinChars == 200

\* BootstrapFields.identity_expected and user_expected with the default values,
\* in the order of the dictionaries
IdentityExpected ==
    <<[key |-> "name", value |-> "Coral"], [key |-> "creature", value |-> "space lobster"],
      [key |-> "vibe", value |-> "warm and casual"], [key |-> "emoji", value |-> "(lobster)"]>>

UserExpected ==
    <<[key |-> "name", value |-> "Alex"], [key |-> "timezone", value |-> "Europe/Rome"]>>

\* cfg.bootstrap_fields as verify_bootstrap reads it
ConfiguredFields == [identity_expected |-> IdentityExpected, user_expected |-> UserExpected]

Keys(expected) == {expected[i].key : i \in DOMAIN expected}

\* A file of the workspace.  kind: "missing"; "oserror" (it exists and reading it
\* raises an OSError: a directory, no permission); "undecodable" (it exists and is
\* not UTF-8: reading it raises UnicodeDecodeError); "text".  Of a text the model
\* keeps what the checks look at: len(content) as len, len(content.strip()) as
\* strip, the keys whose expected value occurs in it as values, the labels for
\* which _field_present finds a real value as fields, the template markers it
\* contains as markers.
File(kind, len, strip, values, fields, markers) ==
    [kind |-> kind, len |-> len, strip |-> strip, values |-> values,
     fields |-> fields, markers |-> markers]

NoText(kind) == File(kind, 0, 0, {}, {}, {})

\* the two phrases of template_markers in check_soul
TemplateMarkers == {"Fill this in", "You're not a chatbot"}

BootstrapFiles == {NoText(k) : k \in {"missing", "oserror", "undecodable"}}
    \cup {File("text", 300, 300, {}, {}, {})}

IdentityFiles == {NoText(k) : k \in {"missing", "oserror", "undecodable"}}
    \cup {File("text", n, n, f[1], f[2], {}) :
            n \in {IdentityMinChars - 50, IdentityMinChars, IdentityMinChars + 50},
            f \in {<<Keys(IdentityExpected), {}>>, <<{"name", "creature"}, {"vibe", "emoji"}>>,
                   <<{"name"}, {}>>, <<{}, {}>>}}

UserFiles == {NoText(k) : k \in {"missing", "oserror", "undecodable"}}
    \cup {File("text", n, n, f[1], f[2], {}) :
            n \in {UserMinChars - 20, UserMinChars, UserMinChars + 30},
            f \in {<<Keys(UserExpected), {}>>, <<{"timezone"}, {"what to call them"}>>,
                   <<{}, {"name"}>>, <<{}, {}>>}}

\* a persona file may carry white space around its text: len = strip + pad
SoulFiles == {NoText(k) : k \in {"missing", "oserror", "undecodable"}}
    \cup {File("text", n + pad, n, {}, {}, m) :
            n \in {SoulMinChars - 50, SoulMinChars, SoulMinChars + 50},
            pad \in {0, 100},
            m \in SUBSET TemplateMarkers}

Workspaces ==
    [bootstrap : BootstrapFiles, identity : IdentityFiles, user : UserFiles,
     soul : SoulFiles]

\* path.exists()
Exists(file) == file.kind # "missing"

\* path.read_text(encoding="utf-8") raises
ReadRaises(file) == file.kind \in {"oserror", "undecodable"}

\* the empty string as a content
NoContent == File("text", 0, 0, {}, {}, {})

\* the content a check stores: the text, named by what the model keeps of it
Content(file) == IF file.kind = "text" THEN file ELSE NoContent

FileCheck(filename) ==
    [filename |-> filename, exists |-> FALSE, passed |-> FALSE, details |-> "",
     content |-> NoContent]

CheckBootstrapDeletedIfReadable(w) ==
    LET exists == Exists(w.bootstrap)
        passed == ~exists \/ w.bootstrap.kind = "oserror"
    IN  [FileCheck("BOOTSTRAP.md") EXCEPT
            !.exists = exists,
            !.passed = passed,
            !.details = IF passed THEN "Deleted (ok)"
                        ELSE "Still exists - bootstrap did not complete",
            !.content = Content(w.bootstrap)]

\* check_bootstrap_deleted (verify.py:150-166); an OSError of the read is caught
CheckBootstrapDeleted(w) ==
    LET exists == Exists(w.bootstrap)
    IN  [FileCheck("BOOTSTRAP.md") EXCEPT
            !.exists = exists,
            !.passed = ~exists,
            !.details = IF ~exists THEN "Deleted (ok)"
                        ELSE "Still exists - bootstrap did not complete",
            !.content = Content(w.bootstrap)]

\* ", ".join(...)
RECURSIVE Join(_)
Join(strs) ==
    IF strs = <<>> THEN ""
    ELSE IF Len(strs) = 1 THEN strs[1]
    ELSE strs[1] \o ", " \o Join(Tail(strs))

\* the value reported for a key: the expected one when it occurs in the text, else
\* the one _field_present extracted
FoundValue(file, e) == IF e.key \in file.values THEN e.value ELSE "<" \o e.key \o ">"

\* the labels _field_present is also asked for: check_user tries
\* "what to call them" for the name (verify.py:240-241)
Fallback(filename, k) ==
    IF filename = "USER.md" /\ k = "name" THEN {"what to call them"} ELSE {}

\* the keys of expected, in order, that the loop of a check puts in missing
MissingKeys(filename, file, expected) ==
    SelectSeq([i \in DOMAIN expected |-> expected[i].key],
              LAMBDA k : /\ k \notin file.values
                         /\ k \notin file.fields
                         /\ Fallback(filename, k) \cap file.fields = {})

\* the part of check_identity and check_user after the file was read:
\* the fallback on the length without expectations, else the loop over the keys
CheckContent(check, file, expected, min_chars, all_set) ==
    IF expected = <<>>
    THEN IF file.strip > min_chars
         THEN [check EXCEPT !.passed = TRUE,
                  !.details = "Has content (" \o ToString(file.len) \o " chars)"]
         ELSE [check EXCEPT !.details = "File appears empty or template-only"]
    ELSE LET missing == MissingKeys(check.filename, file, expected)
         IN  IF missing # <<>>
             THEN [check EXCEPT !.details = "Missing fields: " \o Join(missing)]
             ELSE [check EXCEPT !.passed = TRUE,
                      !.details = all_set \o
                          Join([i \in DOMAIN expected |->
                                  expected[i].key \o "=" \o FoundValue(file, expected[i])])]

\* check_identity (verify.py:169-211), for a file whose read does not raise
CheckIdentity(w, expected) ==
    LET check == [FileCheck("IDENTITY.md") EXCEPT !.exists = Exists(w.identity)]
    IN  IF ~Exists(w.identity)
        THEN [check EXCEPT !.details = "File missing"]
        ELSE CheckContent([check EXCEPT !.content = Content(w.identity)], w.identity,
                          expected, IdentityMinChars, "All fields set: ")

\* check_user (verify.py:214-255); for the name it also tries "what to call them"
CheckUser(w, expected) ==
    LET check == [FileCheck("USER.md") EXCEPT !.exists = Exists(w.user)]
    IN  IF ~Exists(w.user)
        THEN [check EXCEPT !.details = "File missing"]
        ELSE CheckContent([check EXCEPT !.content = Content(w.user)], w.user,
                          expected, UserMinChars, "Key fields populated: ")

CheckSoulRawLength(w) ==
    LET check == [FileCheck("SOUL.md") EXCEPT !.exists = Exists(w.soul)]
    IN  IF ~Exists(w.soul)
        THEN [check EXCEPT !.details = "File missing"]
        ELSE IF TemplateMarkers \subseteq w.soul.markers /\ ~(w.soul.len > SoulMinChars)
             THEN [check EXCEPT !.content = Content(w.soul),
                      !.details = "Still contains only template text"]
             ELSE [check EXCEPT !.content = Content(w.soul), !.passed = TRUE,
                      !.details = "Modified (" \o ToString(w.soul.len) \o " chars)"]

\* check_soul (verify.py:258-285)
CheckSoul(w) ==
    LET check == [FileCheck("SOUL.md") EXCEPT !.exists = Exists(w.soul)]
        has_template_only == TemplateMarkers \subseteq w.soul.markers
        is_long_enough    == w.soul.strip > SoulMinChars
    IN  IF ~Exists(w.soul)
        THEN [check EXCEPT !.details = "File missing"]
        ELSE IF has_template_only /\ ~is_long_enough
             THEN [check EXCEPT !.content = Content(w.soul),
                      !.details = "Still contains only template text"]
             ELSE [check EXCEPT !.content = Content(w.soul), !.passed = TRUE,
                      !.details = "Modified (" \o ToString(w.soul.len) \o " chars)"]

\* a read_text that nothing catches: check_bootstrap_deleted catches OSError only,
\* the other three checks catch nothing (verify.py:157-158, 178, 223, 267)
VerifyRaises(w) ==
    \/ w.bootstrap.kind = "undecodable"
    \/ ReadRaises(w.identity)
    \/ ReadRaises(w.user)
    \/ ReadRaises(w.soul)

\* verify_bootstrap(workspace, model_name, bootstrap_fields) (verify.py:290-320),
\* over the files themselves
VerifyBootstrapFiles(w, model_name, bootstrap_fields) ==
    LET identity_expected ==
            IF bootstrap_fields # None THEN bootstrap_fields.identity_expected ELSE <<>>
        user_expected ==
            IF bootstrap_fields # None THEN bootstrap_fields.user_expected ELSE <<>>
        checks == <<CheckBootstrapDeleted(w), CheckIdentity(w, identity_expected),
                    CheckUser(w, user_expected), CheckSoul(w)>>
        passed == NumPassed(checks)
        total  == Len(checks)
    IN  [model_name |-> model_name, checks |-> checks,
         all_passed |-> (passed = total),
         score |-> IF total > 0 THEN Rat(passed, total) ELSE Rat(0, 1)]

\* verify_bootstrap only reads: exists() and read_text() (verify.py:150-320)
WorkspaceAfterVerifyDeletes(w) ==
    [w EXCEPT !.bootstrap = NoText("missing")]

WorkspaceAfterVerify(w) == w

\* run_benchmark and run_single_model are not running
OrchIdle ==
    /\ pc = "idle"
    /\ cfg = None
    /\ skip_completed = FALSE
    /\ latest = None
    /\ openclaw_version = Unknown
    /\ prev_lookup = <<>>
    /\ prev_version = ""
    /\ mi = 1
    /\ vi = 1
    /\ run_idx = 0
    /\ attempt = 0
    /\ result = None
    /\ model_runs = <<>>
    /\ aggregated = <<>>
    /\ attempt_log = <<>>
    /\ calls = 0
    /\ pair_log = <<>>
    /\ ResIdle
    /\ SigIdle

\* what one call of verify_bootstrap on the workspace produces
VerifyCall(runner, bootstrap_fields) ==
    LET raised == VerifyRaises(files)
    IN  [runner |-> runner, fields |-> bootstrap_fields, saw |-> files,
         raised |-> raised, ret |-> None,
         result |-> IF raised THEN None
                    ELSE VerifyBootstrapFiles(files, ModelAlpha.model_id, bootstrap_fields)]

\* the result of the driver that run_single_model holds when it verifies
DriverResult(w) == Conversation(ModelAlpha, VariantGuided.prompts, {}, ~Exists(w.bootstrap))

\* verify_bootstrap called with the configured expectations
VerifyConfigured ==
    /\ Len(verified) < MaxCalls
    /\ verified' = Append(verified,
          [VerifyCall(FALSE, ConfiguredFields) EXCEPT !.ret = None])
    /\ files' = WorkspaceAfterVerify(files)
    /\ UNCHANGED <<orchVars, trialVars, resVars, sigVars, agg_runs, agg_out>>

\* step 6 of run_single_model: verify_bootstrap(env.workspace_dir, model.model_id),
\* and what run_single_model returns after it (runner.py:158-170)
VerifyAsRunner ==
    /\ Len(verified) < MaxCalls
    /\ LET call == VerifyCall(TRUE, None)
       IN  verified' = Append(verified,
              [call EXCEPT !.ret =
                  IF call.raised
                  THEN ErrorPair(ModelAlpha, "'utf-8' codec can't decode byte 0xff")
                  ELSE [br |-> DriverResult(files), vr |-> call.result]])
    /\ files' = WorkspaceAfterVerify(files)
    /\ UNCHANGED <<orchVars, trialVars, resVars, sigVars, agg_runs, agg_out>>

InitVerify ==
    /\ OrchIdle
    /\ TrialIdle
    /\ files \in Workspaces
    /\ verified = <<>>
    /\ agg_runs = <<>>
    /\ agg_out = None

NextVerify ==
    \/ VerifyConfigured
    \/ VerifyAsRunner

SpecVerify == InitVerify /\ [][NextVerify]_vars

----------------------------------------------------------------------------
\* Properties of verify_bootstrap, under SpecVerify.

\* the calls of verify_bootstrap that returned
Returned == {i \in DOMAIN verified : ~verified[i].raised}

\* C11: in every result verify_bootstrap returns, the check on BOOTSTRAP.md passes
\* iff the file does not exist in the workspace, and its exists flag is the
\* negation of its passed flag.
C11_TriggerCheckIffAbsent ==
    \A i \in Returned :
        LET c == verified[i].result.checks[1]
        IN  /\ c.filename = "BOOTSTRAP.md"
            /\ c.passed <=> ~Exists(verified[i].saw.bootstrap)
            /\ c.exists = ~c.passed

\* BOOTSTRAP.md is there and cannot be read (a directory): the check fails
C11_Witness ==
    \E i \in Returned :
        /\ verified[i].saw.bootstrap.kind = "oserror"
        /\ verified[i].result.checks[1].exists
        /\ ~verified[i].result.checks[1].passed

----------------------------------------------------------------------------
\* Properties of the VerificationResult that run_single_model returns, under
\* SpecTrial.

\* the checks of a result that passed
PassedChecks(vr) == {i \in DOMAIN vr.checks : vr.checks[i].passed}

ScoreInUnitInterval(vr) == ~RatLess(vr.score, Rat(0, 1)) /\ ~RatLess(Rat(1, 1), vr.score)

\* run_single_model returned what the driver and verify_bootstrap produced
NormalCompletion == tpc = "returned" /\ conv # None /\ "verify_raised" \notin cause

\* C13: for every VerificationResult, 0 <= score <= 1; with at least one check the
\* score is (checks passed) / (checks) and all_passed is true iff every check
\* passed; a result without checks (the one of the error paths) has score 0 and
\* all_passed false.
C13_ScoreIsPassedOverTotal ==
    tpc = "returned" =>
        LET vr     == ret.vr
            passed == Cardinality(PassedChecks(vr))
            total  == Len(vr.checks)
        IN  /\ ScoreInUnitInterval(vr)
            /\ total > 0 => vr.score = Rat(passed, total)
            /\ total > 0 => (vr.all_passed <=> passed = total)
            /\ total = 0 => (vr.score = Rat(0, 1) /\ ~vr.all_passed)

\* C13 as stated: all_passed is true iff every check passed, for every result
C13_AllPassedIffEveryCheckPassed ==
    tpc = "returned" =>
        LET vr     == ret.vr
            passed == Cardinality(PassedChecks(vr))
            total  == Len(vr.checks)
        IN  /\ ScoreInUnitInterval(vr)
            /\ vr.score.n * total = passed * vr.score.d
            /\ vr.all_passed <=> \A i \in DOMAIN vr.checks : vr.checks[i].passed

C13_Witness ==
    /\ NormalCompletion
    /\ ret.vr.score = Rat(3, 4)
    /\ ~ret.vr.all_passed

\* C14: on normal completion the VerificationResult carries exactly four checks, in
\* the order BOOTSTRAP.md, IDENTITY.md, USER.md, SOUL.md; on onboarding failure and
\* on a caught exception it carries no check at all, with score 0 and all_passed
\* false.
C14_FourChecksOnCompletion ==
    tpc = "returned" =>
        IF NormalCompletion
        THEN [i \in DOMAIN ret.vr.checks |-> ret.vr.checks[i].filename] = CheckFiles
        ELSE ret.vr = VerificationResult(ModelAlpha.model_id)

\* C14 as stated: four checks in the fixed order on every path
C14_AlwaysFourChecks ==
    tpc = "returned" =>
        /\ Len(ret.vr.checks) = 4
        /\ \A i \in DOMAIN ret.vr.checks : ret.vr.checks[i].filename = CheckFiles[i]

C14_Witness ==
    /\ tpc = "returned"
    /\ cause = {"onboard_failed"}
    /\ ret.br.error = "Onboarding failed"
    /\ ret.vr.checks = <<>>

\* every key of expected is found in the file: its value occurs in the text, or
\* _field_present finds a real value for the key (for the user's name, also for
\* "what to call them")
AllKeysFound(filename, file, expected) ==
    /\ file.kind = "text"
    /\ \A k \in Keys(expected) :
          \/ k \in file.values
          \/ k \in file.fields
          \/ Fallback(filename, k) \cap file.fields # {}

\* the identity check and the user check of a call follow the given expectations
ChecksFollowExpectations(e) ==
    LET identity == e.result.checks[2]
        user     == e.result.checks[3]
    IN  /\ identity.passed <=> AllKeysFound("IDENTITY.md", e.saw.identity, IdentityExpected)
        /\ user.passed <=> AllKeysFound("USER.md", e.saw.user, UserExpected)
        /\ ~Exists(e.saw.identity) => (~identity.passed /\ identity.details = "File missing")
        /\ ~Exists(e.saw.user) => (~user.passed /\ user.details = "File missing")

\* C15: in every trial run by the controller (the call of verify_bootstrap that
\* run_single_model makes), the identity check passes iff every key of the
\* configured expected identity is found in IDENTITY.md and the user check passes
\* iff every key of the configured expected user values is found in USER.md; a
\* missing file fails its check with the detail "File missing".
C15_ChecksUseConfiguredExpectations ==
    \A i \in Returned : verified[i].runner => ChecksFollowExpectations(verified[i])

\* a trial whose IDENTITY.md holds every expected value in a short text, and whose
\* USER.md is a longer text with none of the expected values
C15_Witness ==
    \E i \in Returned :
        /\ verified[i].runner
        /\ verified[i].saw.identity.values = Keys(IdentityExpected)
        /\ ~verified[i].result.checks[2].passed
        /\ verified[i].saw.user.kind = "text"
        /\ verified[i].saw.user.values \cup verified[i].saw.user.fields = {}
        /\ verified[i].result.checks[3].passed

\* the persona check of a call, for a given measure of the length of the file
SoulContract(e, length) ==
    LET f == e.saw.soul
        c == e.result.checks[4]
    IN  /\ c.filename = "SOUL.md"
        /\ Exists(f) =>
              /\ c.passed <=> (~(TemplateMarkers \subseteq f.markers) \/ length > SoulMinChars)
              /\ ~c.passed => c.details = "Still contains only template text"

\* C16: the check on an existing SOUL.md passes iff the file does not contain all
\* of the template phrases or its length without leading and trailing white space
\* exceeds 200 characters; a file with both phrases and 150 such characters fails
\* with the detail "Still contains only template text", with 250 it passes; a
\* missing SOUL.md fails with "File missing".
C16_SoulPassesUnlessShortTemplate ==
    \A i \in Returned :
        LET f == verified[i].saw.soul
            c == verified[i].result.checks[4]
        IN  /\ SoulContract(verified[i], f.strip)
            /\ ~Exists(f) => (~c.passed /\ c.details = "File missing")
            /\ (f.markers = TemplateMarkers /\ f.strip = SoulMinChars - 50) => ~c.passed
            /\ (f.markers = TemplateMarkers /\ f.strip = SoulMinChars + 50) => c.passed

\* C16 as stated: the length of the file decides
C16_SoulPassesOnLength ==
    \A i \in Returned : SoulContract(verified[i], verified[i].saw.soul.len)

\* both phrases, 150 characters of text and white space up to 250: the check fails
C16_Witness ==
    \E i \in Returned :
        /\ verified[i].saw.soul.markers = TemplateMarkers
        /\ verified[i].saw.soul.strip = SoulMinChars - 50
        /\ verified[i].saw.soul.len = SoulMinChars + 50
        /\ ~verified[i].result.checks[4].passed

\* the check of a file that is missing or cannot be read failed and says why
Degraded(file, check) ==
    (~Exists(file) \/ ReadRaises(file)) => (~check.passed /\ check.details # "")

\* C17: verification never throws: a file that is missing or cannot be read gives
\* a failed check with an explanatory detail, the other checks are evaluated, and
\* run_single_model returns the ConversationResult as the driver produced it.
C17_VerificationNeverThrows ==
    \A i \in DOMAIN verified :
        LET e == verified[i]
        IN  /\ ~e.raised
            /\ Len(e.result.checks) = 4
            /\ Degraded(e.saw.identity, e.result.checks[2])
            /\ Degraded(e.saw.user, e.result.checks[3])
            /\ Degraded(e.saw.soul, e.result.checks[4])
            /\ e.runner => e.ret.br = DriverResult(e.saw)

\* IDENTITY.md is not valid UTF-8: the call raises, and run_single_model returns
\* an error result without the turns of the conversation
C17_Witness ==
    \E i \in DOMAIN verified :
        /\ verified[i].runner
        /\ verified[i].saw.identity.kind = "undecodable"
        /\ verified[i].saw.user.kind = "text"
        /\ verified[i].saw.soul.kind = "text"
        /\ verified[i].raised
        /\ verified[i].ret.br.error # ""
        /\ verified[i].ret.br.turns = <<>>
        /\ verified[i].ret.vr.checks = <<>>

----------------------------------------------------------------------------
\* report.py: aggregate_runs on its own (SpecAggregate).

\* the runs aggregate_runs can be handed: lists of pairs run_single_model returns
AggInputs ==
    UNION {[1..n -> TrialOutcomes(ModelAlpha, VariantGuided.prompts)] : n \in 0..MaxRuns + 1}

\* aggregate_runs(model_name, runs, prompt_variant, prompt_variant_prompts)
AggregateCall ==
    /\ agg_out = None
    /\ agg_out' = AggregateRuns(ModelAlpha.model_id, agg_runs, VariantGuided.name,
                                VariantGuided.prompts)
    /\ UNCHANGED <<orchVars, trialVars, resVars, sigVars, files, verified, agg_runs>>

InitAggregate ==
    /\ OrchIdle
    /\ TrialIdle
    /\ files = None
    /\ verified = <<>>
    /\ agg_runs \in AggInputs
    /\ agg_out = None

NextAggregate == AggregateCall

SpecAggregate == InitAggregate /\ [][NextAggregate]_vars

----------------------------------------------------------------------------
\* Properties of aggregate_runs, under SpecAggregate.

\* m is the arithmetic mean of the fractions of seq
IsMean(m, seq) == m.n * SumRat(seq).d * Len(seq) = SumRat(seq).n * m.d

InUnitInterval(x) == ~RatLess(x, Rat(0, 1)) /\ ~RatLess(Rat(1, 1), x)

\* C18: over n >= 1 runs aggregate_runs returns num_runs = n, avg_score the mean
\* of the scores and avg_duration_s the mean of the durations; over zero runs it
\* returns the zeroed result with num_runs = 0; over runs that all have score 0
\* (with or without checks) it returns avg_score 0.
C18_AveragesAreMeans ==
    agg_out # None =>
        LET n == Len(agg_runs)
        IN  /\ n >= 1 =>
                  /\ agg_out.num_runs = n
                  /\ IsMean(agg_out.avg_score, [i \in 1..n |-> agg_runs[i].vr.score])
                  /\ IsMean(agg_out.avg_duration_s,
                            [i \in 1..n |-> agg_runs[i].br.total_duration_s])
            /\ n = 0 =>
                  agg_out = [AggregatedResult(ModelAlpha.model_id) EXCEPT
                                !.prompt_variant = VariantGuided.name,
                                !.prompt_variant_prompts = VariantGuided.prompts]
            /\ (\A i \in 1..n : agg_runs[i].vr.score = Rat(0, 1)) =>
                  agg_out.avg_score = Rat(0, 1)

\* three runs with the scores 1, 0 (no checks) and 3/4
C18_Witness ==
    /\ agg_out # None
    /\ Len(agg_runs) = 3
    /\ agg_runs[1].vr.all_passed
    /\ agg_runs[2].vr.checks = <<>>
    /\ agg_runs[3].vr.score = Rat(3, 4)
    /\ agg_out.avg_score = Rat(7, 12)

\* the runs in which the check on filename passed
RunsPassing(filename) ==
    {i \in DOMAIN agg_runs :
        \E j \in DOMAIN agg_runs[i].vr.checks :
            /\ agg_runs[i].vr.checks[j].filename = filename
            /\ agg_runs[i].vr.checks[j].passed}

\* the four per-check rates of a result, by file
PerCheckRate(ag, filename) ==
    CASE filename = "BOOTSTRAP.md" -> ag.bootstrap_md_rate
      [] filename = "IDENTITY.md" -> ag.identity_rate
      [] filename = "USER.md" -> ag.user_rate
      [] filename = "SOUL.md" -> ag.soul_rate

\* C19: for n >= 1 runs each per-check rate is (runs in which that check passed) / n
\* and perfect_rate is (runs in which all checks passed) / n; every rate lies in
\* [0,1] and perfect_rate is not greater than any per-check rate.
C19_RatesAreFractionsOfRuns ==
    (agg_out # None /\ Len(agg_runs) >= 1) =>
        LET n == Len(agg_runs)
        IN  /\ \A k \in DOMAIN CheckFiles :
                  LET rate == PerCheckRate(agg_out, CheckFiles[k])
                  IN  /\ rate = Rat(Cardinality(RunsPassing(CheckFiles[k])), n)
                      /\ InUnitInterval(rate)
                      /\ ~RatLess(rate, agg_out.perfect_rate)
            /\ agg_out.perfect_rate =
                  Rat(Cardinality({i \in 1..n : agg_runs[i].vr.all_passed}), n)
            /\ InUnitInterval(agg_out.perfect_rate)

C19_Witness ==
    /\ agg_out # None
    /\ Len(agg_runs) = 3
    /\ agg_out.perfect_rate = Rat(1, 3)
    /\ agg_out.identity_rate = Rat(2, 3)
    /\ agg_out.soul_rate = Rat(1, 3)

----------------------------------------------------------------------------
\* Claims about the environments and the gateway processes, checked under Spec.

\* run_benchmark or run_single_model is about to construct an environment
\* (runner.py:239, runner.py:110)
AboutToCreate == pc \in {"early_version", "attempt"}

\* C20: at every instant of a benchmark invocation at most one environment is
\* active and at most one gateway process is alive; an environment is created
\* (for the early version detection, for a trial, for a retry) and a gateway is
\* started only when no gateway is alive, no other environment is active and,
\* unless keep_env, no environment directory is left on disk.
C20_OneEnvironmentOneGateway ==
    /\ active_envs <= 1
    /\ gateways <= 1
    /\ ~keep_env => env_dirs <= 1
    /\ AboutToCreate =>
          /\ gateways = 0
          /\ active_envs = 0
          /\ ~keep_env => env_dirs = 0
    /\ pc = "trial" => gateways = 0

\* a retry has its own environment and its own gateway running, after the early
\* environment and the environment of the failed attempt were torn down
C20_Witness ==
    /\ pc = "conversation"
    /\ attempt > 1
    /\ calls >= 1
    /\ ~keep_env
    /\ env_dirs = 1
    /\ active_envs = 1
    /\ gateways = 1

\* C23: a failure scoped to one trial never aborts the batch: once a (model,
\* variant) pair has been started, run_benchmark is not ended by an exception.
C23_TrialFailureNeverAborts ==
    pc = "crashed" => pair_log = <<>>

\* stop_gateway raised in the finally clause of the first trial of two: the
\* gateway and the directory are left, and no pair is aggregated
C23_Witness ==
    /\ pc = "crashed"
    /\ Len(pair_log) = 1
    /\ Len(cfg.models) * Len(LoopVariants(cfg)) * NRuns(cfg) = 2
    /\ calls = 1
    /\ gateways = 1
    /\ env_dirs = 1
    /\ aggregated = <<>>

\* C24: a fatal precondition (no model configured or matching, a failed
\* pre-flight check) ends the batch before any environment exists and before any
\* trial, and nothing else ends the batch early: an invocation ends on a fatal
\* precondition or with every pair processed.
C24_OnlyFatalPreconditionStopsEarly ==
    /\ pc \in {"exit1", "exit2"} =>
          /\ env_dirs = 0
          /\ active_envs = 0
          /\ pair_log = <<>>
          /\ aggregated = <<>>
    /\ pc # "crashed"

\* the constructor of the early environment raised after the pre-flight checks
\* were passed: the batch ends before its first trial
C24_Witness ==
    /\ pc = "crashed"
    /\ cfg.models # <<>>
    /\ pair_log = <<>>
    /\ calls = 0
    /\ env_dirs = 1
    /\ active_envs = 0

\* C27: every result reused by skip-completed was produced under the tool
\* version that the new report records: when the report is written, the version
\* of the prior report of each skipped pair is the report's openclaw_version.
C27_ReusedUnderReportedVersion ==
    pc = "returned" =>
        \A i \in DOMAIN pair_log :
            pair_log[i].skipped => pair_log[i].prior_version = latest.openclaw_version

\* the first pair is skipped while the version is still unknown, the second pair
\* is run and detects the version that the report then records
C27_Witness ==
    /\ pc = "returned"
    /\ Len(pair_log) = 2
    /\ pair_log[1].skipped
    /\ pair_log[1].prior_version = Unknown
    /\ ~pair_log[2].skipped
    /\ latest.openclaw_version # Unknown

\* C25: benchmark_latest.json is rewritten atomically: at every instant the
\* file holds the complete report it held at the start of the invocation or the
\* complete new report, never an empty or partial text.
C25_LatestRewrittenAtomically ==
    \/ latest \in PriorReports
    \/ latest = SaveJsonReport(aggregated, openclaw_version)

\* the write of the latest file failed part-way: the prior report is gone, and
\* the next --skip-completed invocation finds nothing to skip
C25_Witness ==
    /\ pc = "save_failed"
    /\ skip_completed
    /\ prev_lookup # <<>>
    /\ latest = PartialFile
    /\ LoadLatestReport(latest) = None
    /\ aggregated # <<>>

\* the (model id, variant name) of the i-th pair in configuration order
ExpectedPair(i) ==
    LET nv == Len(LoopVariants(cfg))
    IN  <<cfg.models[((i - 1) \div nv) + 1].model_id,
          LoopVariants(cfg)[((i - 1) % nv) + 1].name>>

\* the results so far are those of the first pairs, each with n_runs records
PairsInOrder ==
    /\ \A i \in DOMAIN aggregated :
          /\ <<aggregated[i].model_name, aggregated[i].prompt_variant>> = ExpectedPair(i)
          /\ ~pair_log[i].skipped =>
                /\ aggregated[i].num_runs = Max(1, cfg.runs_per_model)
                /\ Len(aggregated[i].runs) = Max(1, cfg.runs_per_model)
    /\ pc = "returned" =>
          Len(aggregated) = Len(cfg.models) * Len(LoopVariants(cfg))

\* model_runs grows by the last attempt of the run run_idx, and the result of a
\* pair that was run aggregates model_runs
RecordsKeptInOrder ==
    /\ model_runs' # model_runs =>
          \/ model_runs' = <<>>
          \/ /\ model_runs' = Append(model_runs, LastOf(attempt_log))
             /\ Len(model_runs') = run_idx
    /\ aggregated' # aggregated =>
          /\ Len(aggregated') = Len(aggregated) + 1
          /\ SubSeq(aggregated', 1, Len(aggregated)) = aggregated
          /\ ~pair_log'[Len(aggregated')].skipped =>
                LastOf(aggregated').runs = model_runs

RanToTheEnd == pc \in {"exit0", "exit1"} /\ cfg.models # <<>>

\* the exit status follows the perfect rates of everything that was returned
StatusFollowsPerfectRates ==
    RanToTheEnd =>
        /\ Len(aggregated) = Len(cfg.models) * Len(LoopVariants(cfg))
        /\ pc = "exit0" <=>
              \A i \in DOMAIN aggregated : aggregated[i].perfect_rate = Rat(1, 1)

----------------------------------------------------------------------------
\* A claim about the pair run_single_model returns, checked under SpecTrial.

\* the checks on BOOTSTRAP.md in a VerificationResult
TriggerChecks(vr) == {i \in DOMAIN vr.checks : vr.checks[i].filename = "BOOTSTRAP.md"}

\* C29: in every pair run_single_model returns, the bootstrap_completed flag of
\* the conversation equals the passed flag of the check on BOOTSTRAP.md (a pair
\* of the error paths has no check and the flag false), so aggregate_runs gives
\* the pair a bootstrap_rate equal to its BOOTSTRAP.md rate.
C29_CompletedFlagIsTriggerCheck ==
    tpc = "returned" =>
        LET ag == AggregateRuns(ret.br.model_name, <<ret>>, "guided", tcfg.prompts)
        IN  /\ \A i \in TriggerChecks(ret.vr) :
                  ret.vr.checks[i].passed = ret.br.bootstrap_completed
            /\ TriggerChecks(ret.vr) = {} => ~ret.br.bootstrap_completed
            /\ ag.bootstrap_rate = ag.bootstrap_md_rate

\* the ritual file is gone although a turn failed and another check fails: flag
\* and check are both true, and both rates are 1
C29_Witness ==
    /\ tpc = "returned"
    /\ ret.br.bootstrap_completed
    /\ TriggerChecks(ret.vr) = {1}
    /\ ret.vr.checks[1].passed
    /\ ~ret.vr.all_passed
    /\ \E i \in DOMAIN ret.br.turns : ~ret.br.turns[i].success
    /\ AggregateRuns(ret.br.model_name, <<ret>>, "guided", tcfg.prompts).bootstrap_md_rate
          = Rat(1, 1)

----------------------------------------------------------------------------
\* runner.py, environment.py: the cleanup registry, the signal handler, the
\* atexit hook and the teardown of run_single_model, statement by statement, for
\* the early environment and one trial (SpecSignal).

\* interrupts delivered to one invocation
MaxSignals == 2

\* a frame of _emergency_cleanup: signum is set for a signal, not for atexit
Frame(signum) == [pos |-> "gw", signum |-> signum]

Top == hstack[Len(hstack)]

SetTop(p) == [hstack EXCEPT ![Len(hstack)].pos = p]

\* an entry of the history: what was done, and whether a gateway was alive then
Event(op) == [op |-> op, alive |-> gateways > 0]

\* the positions inside the try body of run_single_model (runner.py:113-164)
TryBody == {"provision", "spawned", "gw_assigned", "converse"}

\* proc.wait in stop_gateway: the process is gone already, exits within the grace
\* period, exits after kill(), or outlasts the wait after kill(), which raises
\* TimeoutExpired (environment.py:469-475)
WaitOutcomes == IF gateways = 0 THEN {"gone"} ELSE {"exited", "killed", "stuck"}

\* the entry of stop_gateway: terminate() if the process is running
\* (environment.py:468-470)
StopEnter ==
    /\ stops' = stops + 1
    /\ events' = IF gateways > 0 THEN Append(events, Event("terminate")) ELSE events

\* the rest of stop_gateway (environment.py:471-476)
StopWait(outcome) ==
    /\ gateways' = IF outcome \in {"exited", "killed"} THEN 0 ELSE gateways
    /\ events' = IF outcome \in {"killed", "stuck"}
                 THEN Append(events, Event("kill")) ELSE events

\* cleanup: rmtree runs if the home directory exists (environment.py:481-482)
CleanupEnter ==
    events' = IF env_dirs > 0 THEN Append(events, Event("rmtree")) ELSE events

CleanupEnd ==
    env_dirs' = IF env_dirs > 0 THEN Cleanup(env_dirs) ELSE env_dirs

ShouldStopNever(proc) == FALSE

\* if gateway_proc is not None (runner.py:173)
ShouldStop(proc) == proc

\* the interpreter is exiting: atexit calls _emergency_cleanup() (runner.py:82)
EnterAtexit ==
    /\ mpos' = "atexit"
    /\ hstack' = <<Frame(FALSE)>>

SigFrame == UNCHANGED <<orchVars, trialVars, pureVars>>

\* SIGINT or SIGTERM is delivered: the handler runs on top of whatever runs
\* (runner.py:80-81)
Interrupt ==
    /\ mpos # "exited"
    /\ Len(hit_at) < MaxSignals
    /\ hit_at' = Append(hit_at, IF hstack = <<>> THEN mpos ELSE "handler_" \o Top.pos)
    /\ hstack' = Append(hstack, Frame(TRUE))
    /\ UNCHANGED <<mpos, pending, active_env, active_gateway, gateway_proc, stops,
                   events, exit_path, resVars>>
    /\ SigFrame

\* if _active_gateway is not None: stop_gateway is entered (runner.py:63-65)
HandlerGateway ==
    /\ hstack # <<>>
    /\ Top.pos = "gw"
    /\ IF active_gateway
       THEN /\ StopEnter
            /\ hstack' = SetTop(IF gateways > 0 THEN "in_stop" ELSE "unreg_gw")
       ELSE /\ hstack' = SetTop("env")
            /\ UNCHANGED <<stops, events>>
    /\ UNCHANGED <<mpos, pending, active_env, active_gateway, gateway_proc, hit_at,
                   exit_path, resVars>>
    /\ SigFrame

\* stop_gateway ends; what it raises is swallowed (runner.py:64-67)
HandlerStopWait ==
    /\ hstack # <<>>
    /\ Top.pos = "in_stop"
    /\ \E outcome \in WaitOutcomes : StopWait(outcome)
    /\ hstack' = SetTop("unreg_gw")
    /\ UNCHANGED <<mpos, pending, active_env, active_gateway, gateway_proc, stops,
                   hit_at, exit_path, keep_env, env_dirs, active_envs>>
    /\ SigFrame

\* _active_gateway = None (runner.py:68)
HandlerUnregisterGateway ==
    /\ hstack # <<>>
    /\ Top.pos = "unreg_gw"
    /\ active_gateway' = FALSE
    /\ hstack' = SetTop("env")
    /\ UNCHANGED <<mpos, pending, active_env, gateway_proc, stops, events, hit_at,
                   exit_path, resVars>>
    /\ SigFrame

\* if _active_env is not None and not _keep_env_flag: cleanup is entered
\* (runner.py:69-71)
HandlerEnv ==
    /\ hstack # <<>>
    /\ Top.pos = "env"
    /\ IF active_env /\ ~keep_env
       THEN /\ CleanupEnter
            /\ hstack' = SetTop(IF env_dirs > 0 THEN "in_cleanup" ELSE "unreg_env")
       ELSE /\ hstack' = SetTop("exit")
            /\ UNCHANGED events
    /\ UNCHANGED <<mpos, pending, active_env, active_gateway, gateway_proc, stops,
                   hit_at, exit_path, resVars>>
    /\ SigFrame

\* rmtree ends (runner.py:71, environment.py:482)
HandlerCleanupEnd ==
    /\ hstack # <<>>
    /\ Top.pos = "in_cleanup"
    /\ CleanupEnd
    /\ hstack' = SetTop("unreg_env")
    /\ UNCHANGED <<mpos, pending, active_env, active_gateway, gateway_proc, stops,
                   events, hit_at, exit_path, keep_env, active_envs, gateways>>
    /\ SigFrame

\* _active_env = None (runner.py:74)
HandlerUnregisterEnv ==
    /\ hstack # <<>>
    /\ Top.pos = "unreg_env"
    /\ active_env' = FALSE
    /\ hstack' = SetTop("exit")
    /\ UNCHANGED <<mpos, pending, active_gateway, gateway_proc, stops, events,
                   hit_at, exit_path, resVars>>
    /\ SigFrame

\* if signum is not None: sys.exit(128 + signum) (runner.py:75-76). SystemExit
\* leaves every handler frame below; in the try body of run_single_model it
\* passes except Exception and enters the finally clause; anywhere else it ends
\* the program. Without signum the atexit call returns and the process is gone.
HandlerExit ==
    /\ hstack # <<>>
    /\ Top.pos = "exit"
    /\ IF ~Top.signum \/ mpos = "atexit"
       THEN /\ mpos' = "exited"
            /\ hstack' = <<>>
            /\ UNCHANGED <<pending, exit_path>>
       ELSE /\ pending' = "exit"
            /\ exit_path' = "interrupted"
            /\ IF mpos \in TryBody
               THEN /\ mpos' = "f_stop"
                    /\ hstack' = <<>>
               ELSE EnterAtexit
    /\ UNCHANGED <<active_env, active_gateway, gateway_proc, stops, events, hit_at,
                   resVars>>
    /\ SigFrame

\* early_env = OpenClawEnvironment(cfg, cfg.models[0]): not registered
\* (runner.py:239)
MainEarlyEnv ==
    /\ hstack = <<>>
    /\ mpos = "start"
    /\ Construct
    /\ mpos' = "early"
    /\ UNCHANGED <<pending, hstack, active_env, active_gateway, gateway_proc, stops,
                   events, hit_at, exit_path>>
    /\ SigFrame

\* install, detect, early_env.cleanup() (runner.py:240-249)
MainEarlyCleanup ==
    /\ hstack = <<>>
    /\ mpos = "early"
    /\ env_dirs' = Cleanup(env_dirs)
    /\ active_envs' = active_envs - 1
    /\ mpos' = "construct"
    /\ UNCHANGED <<pending, hstack, active_env, active_gateway, gateway_proc, stops,
                   events, hit_at, exit_path, keep_env, gateways>>
    /\ SigFrame

\* env = OpenClawEnvironment(cfg, model) (runner.py:110)
MainConstruct ==
    /\ hstack = <<>>
    /\ mpos = "construct"
    /\ Construct
    /\ mpos' = "constructed"
    /\ UNCHANGED <<pending, hstack, active_env, active_gateway, gateway_proc, stops,
                   events, hit_at, exit_path>>
    /\ SigFrame

\* _active_env = env (runner.py:111)
MainRegisterEnv ==
    /\ hstack = <<>>
    /\ mpos = "constructed"
    /\ active_env' = TRUE
    /\ mpos' = "provision"
    /\ UNCHANGED <<pending, hstack, active_gateway, gateway_proc, stops, events,
                   hit_at, exit_path, resVars>>
    /\ SigFrame

\* steps 1 to 3, and Popen in start_gateway (runner.py:114-145,
\* environment.py:457-463)
MainProvision ==
    /\ hstack = <<>>
    /\ mpos = "provision"
    /\ \/ /\ exit_path' \in {"onboard_failed", "exception"}
          /\ mpos' = "f_stop"
          /\ UNCHANGED gateways
       \/ /\ gateways' = gateways + 1
          /\ mpos' = "spawned"
          /\ UNCHANGED exit_path
    /\ UNCHANGED <<pending, hstack, active_env, active_gateway, gateway_proc, stops,
                   events, hit_at, keep_env, env_dirs, active_envs>>
    /\ SigFrame

\* start_gateway returns and gateway_proc is bound (runner.py:145)
MainAssignProc ==
    /\ hstack = <<>>
    /\ mpos = "spawned"
    /\ gateway_proc' = TRUE
    /\ mpos' = "gw_assigned"
    /\ UNCHANGED <<pending, hstack, active_env, active_gateway, stops, events, hit_at,
                   exit_path, resVars>>
    /\ SigFrame

\* _active_gateway = gateway_proc (runner.py:146)
MainRegisterGateway ==
    /\ hstack = <<>>
    /\ mpos = "gw_assigned"
    /\ active_gateway' = TRUE
    /\ mpos' = "converse"
    /\ UNCHANGED <<pending, hstack, active_env, gateway_proc, stops, events, hit_at,
                   exit_path, resVars>>
    /\ SigFrame

\* the conversation and the verification, up to the return or the except clause
\* (runner.py:147-170)
MainConverse ==
    /\ hstack = <<>>
    /\ mpos = "converse"
    /\ exit_path' \in {"normal", "exception"}
    /\ mpos' = "f_stop"
    /\ UNCHANGED <<pending, hstack, active_env, active_gateway, gateway_proc, stops,
                   events, hit_at, resVars>>
    /\ SigFrame

\* finally: if gateway_proc is not None, stop_gateway is entered (runner.py:173-174)
FinallyGateway ==
    /\ hstack = <<>>
    /\ mpos = "f_stop"
    /\ IF ShouldStop(gateway_proc)
       THEN /\ StopEnter
            /\ mpos' = IF gateways > 0 THEN "f_in_stop" ELSE "f_unreg_gw"
       ELSE /\ mpos' = "f_unreg_gw"
            /\ UNCHANGED <<stops, events>>
    /\ UNCHANGED <<pending, hstack, active_env, active_gateway, gateway_proc, hit_at,
                   exit_path, resVars>>
    /\ SigFrame

\* stop_gateway ends in the finally clause; TimeoutExpired leaves run_single_model
\* and run_benchmark (runner.py:174, environment.py:475)
FinallyStopWait ==
    /\ hstack = <<>>
    /\ mpos = "f_in_stop"
    /\ \E outcome \in WaitOutcomes :
          /\ StopWait(outcome)
          /\ IF outcome = "stuck"
             THEN /\ pending' = "timeout"
                  /\ EnterAtexit
             ELSE /\ mpos' = "f_unreg_gw"
                  /\ UNCHANGED <<pending, hstack>>
    /\ UNCHANGED <<active_env, active_gateway, gateway_proc, stops, hit_at, exit_path,
                   keep_env, env_dirs, active_envs>>
    /\ SigFrame

\* _active_gateway = None (runner.py:175)
FinallyUnregisterGateway ==
    /\ hstack = <<>>
    /\ mpos = "f_unreg_gw"
    /\ active_gateway' = FALSE
    /\ mpos' = "f_cleanup"
    /\ UNCHANGED <<pending, hstack, active_env, gateway_proc, stops, events, hit_at,
                   exit_path, resVars>>
    /\ SigFrame

\* if not keep_env: env.cleanup() is entered (runner.py:176-179)
FinallyEnv ==
    /\ hstack = <<>>
    /\ mpos = "f_cleanup"
    /\ IF ~keep_env
       THEN /\ CleanupEnter
            /\ mpos' = IF env_dirs > 0 THEN "f_in_cleanup" ELSE "f_unreg_env"
       ELSE /\ mpos' = "f_unreg_env"
            /\ UNCHANGED events
    /\ UNCHANGED <<pending, hstack, active_env, active_gateway, gateway_proc, stops,
                   hit_at, exit_path, resVars>>
    /\ SigFrame

\* rmtree ends (runner.py:177, environment.py:482)
FinallyCleanupEnd ==
    /\ hstack = <<>>
    /\ mpos = "f_in_cleanup"
    /\ CleanupEnd
    /\ mpos' = "f_unreg_env"
    /\ UNCHANGED <<pending, hstack, active_env, active_gateway, gateway_proc, stops,
                   events, hit_at, exit_path, keep_env, active_envs, gateways>>
    /\ SigFrame

\* _active_env = None, then the return, or the pending SystemExit goes on
\* (runner.py:180)
FinallyUnregisterEnv ==
    /\ hstack = <<>>
    /\ mpos = "f_unreg_env"
    /\ active_env' = FALSE
    /\ active_envs' = active_envs - 1
    /\ IF pending = "exit"
       THEN EnterAtexit
       ELSE /\ mpos' = "returned"
            /\ UNCHANGED hstack
    /\ UNCHANGED <<pending, active_gateway, gateway_proc, stops, events, hit_at,
                   exit_path, keep_env, env_dirs, gateways>>
    /\ SigFrame

\* run_benchmark and main end: the interpreter exits (run_benchmark.py:123)
MainEnd ==
    /\ hstack = <<>>
    /\ mpos = "returned"
    /\ EnterAtexit
    /\ UNCHANGED <<pending, active_env, active_gateway, gateway_proc, stops, events,
                   hit_at, exit_path, resVars>>
    /\ SigFrame

InitSignal ==
    /\ pc = "idle"
    /\ cfg = None
    /\ skip_completed = FALSE
    /\ latest = None
    /\ openclaw_version = Unknown
    /\ prev_lookup = <<>>
    /\ prev_version = ""
    /\ mi = 1
    /\ vi = 1
    /\ run_idx = 0
    /\ attempt = 0
    /\ result = None
    /\ model_runs = <<>>
    /\ aggregated = <<>>
    /\ attempt_log = <<>>
    /\ calls = 0
    /\ pair_log = <<>>
    /\ TrialIdle
    /\ PureIdle
    /\ keep_env \in BOOLEAN
    /\ env_dirs = 0
    /\ active_envs = 0
    /\ gateways = 0
    /\ mpos = "start"
    /\ pending = "none"
    /\ hstack = <<>>
    /\ active_env = FALSE
    /\ active_gateway = FALSE
    /\ gateway_proc = FALSE
    /\ stops = 0
    /\ events = <<>>
    /\ hit_at = <<>>
    /\ exit_path = "none"

NextSignal ==
    \/ Interrupt
    \/ HandlerGateway
    \/ HandlerStopWait
    \/ HandlerUnregisterGateway
    \/ HandlerEnv
    \/ HandlerCleanupEnd
    \/ HandlerUnregisterEnv
    \/ HandlerExit
    \/ MainEarlyEnv
    \/ MainEarlyCleanup
    \/ MainConstruct
    \/ MainRegisterEnv
    \/ MainProvision
    \/ MainAssignProc
    \/ MainRegisterGateway
    \/ MainConverse
    \/ FinallyGateway
    \/ FinallyStopWait
    \/ FinallyUnregisterGateway
    \/ FinallyEnv
    \/ FinallyCleanupEnd
    \/ FinallyUnregisterEnv
    \/ MainEnd

SpecSignal == InitSignal /\ [][NextSignal]_vars

----------------------------------------------------------------------------
\* Claims about the registry, the handler and the teardown, checked under
\* SpecSignal.

\* C26: whenever run_single_model has returned, by the normal return, the
\* onboarding-failure return or the caught exception, no gateway process is left,
\* the environment directory is gone unless keep_env is set, and _active_env and
\* _active_gateway are both empty; this includes a trial whose provisioning
\* failed before a gateway was started.
C26_ReturnLeavesNothingBehind ==
    mpos = "returned" =>
        /\ exit_path \in {"normal", "onboard_failed", "exception"}
        /\ gateways = 0
        /\ keep_env \/ env_dirs = 0
        /\ ~keep_env \/ env_dirs = 1
        /\ ~active_env
        /\ ~active_gateway
        /\ gateway_proc \/ stops = 0

C26_Witness ==
    /\ mpos = "returned"
    /\ exit_path = "exception"
    /\ gateway_proc
    /\ stops = 1
    /\ ~keep_env
    /\ hit_at = <<>>

\* how often an operation was carried out in this trial
Carried(op) == Cardinality({i \in DOMAIN events : events[i].op = op})

\* C22: under every interleaving of the signal handler, the atexit hook and the
\* finally clause, a running gateway is told to terminate at most once and the
\* removal of the environment directory is carried out at most once in a trial.
C22_CleanupAtMostOnce ==
    /\ Carried("terminate") <= 1
    /\ Carried("rmtree") <= 1

C22_Witness ==
    /\ mpos = "exited"
    /\ hit_at = <<"f_in_stop">>
    /\ Carried("terminate") = 2
    /\ stops = 2

\* the gateway was told to terminate before it was killed, and no directory
\* was removed while a gateway was still alive
GatewayFirstThenDirectory ==
    \A i \in DOMAIN events :
        /\ events[i].op = "kill" =>
               \E j \in 1..(i - 1) : events[j].op = "terminate"
        /\ events[i].op = "rmtree" => ~events[i].alive

\* C21: when the process has exited after SIGINT or SIGTERM, delivered at any
\* point, and keep_env is not set, no gateway process and no environment
\* directory of this invocation is left, the gateway was terminated before any
\* kill, and the directory was removed only after the gateway was gone.
C21_InterruptLeavesNothingBehind ==
    mpos = "exited" /\ hit_at # <<>> /\ ~keep_env =>
        /\ gateways = 0
        /\ env_dirs = 0
        /\ GatewayFirstThenDirectory

C21_Witness ==
    /\ mpos = "exited"
    /\ hit_at = <<"early">>
    /\ ~keep_env
    /\ env_dirs = 1
    /\ events = <<>>

====
